---- MODULE Spec2Model ----
(***************************************************************************)
(* Retirement-planning engine: withdrawal-strategy simulators, growth and  *)
(* target math, asset-allocation model.                                    *)
(*                                                                         *)
(* One engine call is in progress at a time (the engine is synchronous):   *)
(*   fn    the function being executed                                     *)
(*   args  its arguments                                                   *)
(*   loc   its local variables (the loop state)                            *)
(*   pc    "loop" while a loop is running, "call" before a straight-line   *)
(*         function has run, "done" once it has returned or thrown         *)
(*   ret   what it returned (or threw)                                     *)
(*                                                                         *)
(* JavaScript numbers are modelled exactly: whole dollars are integers,    *)
(* rates and fractional amounts are rationals [n, d].  The rates drawn in  *)
(* the input sets are dyadic (k/2^j) wherever a claim depends on rounding, *)
(* so the IEEE-754 arithmetic of the program is exact on them as well.     *)
(***************************************************************************)
EXTENDS Integers, Sequences, FiniteSets, TLC

VARIABLES fn, args, loc, pc, ret

vars == <<fn, args, loc, pc, ret>>

(***************************************************************************)
(* Bounds of the input sets.                                               *)
(***************************************************************************)
MaxPortfolio == 12
MaxWithdrawal == 8
MaxYears == 3
MaxExpenses == 2

(***************************************************************************)
(* Exact rational arithmetic, and Math.round / Math.max / Math.min.        *)
(***************************************************************************)
Abs(x) == IF x < 0 THEN -x ELSE x

RECURSIVE GCD(_, _)
GCD(a, b) == IF b = 0 THEN a ELSE GCD(b, a % b)

\* n/d in lowest terms, d > 0
Rat(n, d) ==
  LET g == GCD(Abs(n), d)
  IN  [n |-> n \div g, d |-> d \div g]

FromInt(i) == [n |-> i, d |-> 1]
Zero == FromInt(0)
One == FromInt(1)

LCM(a, b) == (a \div GCD(a, b)) * b

RatAdd(a, b) ==
  LET l == LCM(a.d, b.d)
  IN  Rat(a.n * (l \div a.d) + b.n * (l \div b.d), l)

RatNeg(a) == [n |-> -a.n, d |-> a.d]
RatSub(a, b) == RatAdd(a, RatNeg(b))

RatMul(a, b) ==
  LET g1 == GCD(Abs(a.n), b.d)
      g2 == GCD(Abs(b.n), a.d)
  IN  IF a.n = 0 \/ b.n = 0 THEN Zero
      ELSE [n |-> (a.n \div g1) * (b.n \div g2), d |-> (a.d \div g2) * (b.d \div g1)]

\* a / b for b # 0
RatDiv(a, b) ==
  IF b.n > 0 THEN RatMul(a, [n |-> b.d, d |-> b.n])
  ELSE RatMul(a, [n |-> -b.d, d |-> -b.n])

RatLt(a, b) ==
  LET l == LCM(a.d, b.d)
  IN  a.n * (l \div a.d) < b.n * (l \div b.d)

RatLe(a, b) == ~RatLt(b, a)

RatMax(a, b) == IF RatLt(a, b) THEN b ELSE a

\* Math.round: the nearest integer, halves rounded towards +Infinity
Round(r) == (2 * r.n + r.d) \div (2 * r.d)

Min(a, b) == IF a < b THEN a ELSE b
Max(a, b) == IF a > b THEN a ELSE b

(***************************************************************************)
(* JavaScript values that are not plain numbers.                           *)
(***************************************************************************)
\* an optional value: undefined, or a value
Undefined == <<>>
Some(x) == <<x>>

\* a number that may be Infinity or NaN
Num(v) == [kind |-> "number", v |-> v]
Infinity == [kind |-> "Infinity", v |-> 0]
NaN == [kind |-> "NaN", v |-> 0]

\* Math.min(minWithdrawal, withdrawal), minWithdrawal starting at Infinity
MathMin(m, w) == IF m.kind = "Infinity" THEN Num(w) ELSE Num(Min(m.v, w))

\* Math.round(totalWithdrawn / years); 0/0 is NaN
Average(totalWithdrawn, years) ==
  IF years = 0 THEN NaN ELSE Num(Round(Rat(totalWithdrawn, years)))

(***************************************************************************)
(* Program constants (types/index.ts).                                     *)
(***************************************************************************)
DEFAULT_INFLATION_RATE == Rat(3, 100)

DEFAULT_GUARDRAILS_CONFIG ==
  [initialRate |-> Rat(5, 100), floorGuardrail |-> Rat(6, 100),
   ceilingGuardrail |-> Rat(4, 100), adjustmentPercent |-> Rat(10, 100)]

WITHDRAWAL_STRATEGY_TYPES ==
  {"constant_dollar", "constant_percentage", "guardrails", "bucket"}

\* getStrategyInfo(type)?.name
StrategyName(type) ==
  CASE type = "constant_dollar" -> "Constant Dollar (4% Rule)"
    [] type = "constant_percentage" -> "Constant Percentage"
    [] type = "guardrails" -> "Guardrails (Variable Withdrawal)"
    [] type = "bucket" -> "Bucket Strategy"

\* balance after the year's withdrawal and growth, rounded (constant_dollar, guardrails)
Grow(balance, withdrawal, annualReturn) ==
  Round(RatMax(Zero, RatMul(FromInt(balance - withdrawal), RatAdd(One, annualReturn))))

\* startingBalance > 0 ? withdrawal / startingBalance : 0
EffectiveRate(withdrawal, startingBalance) ==
  IF startingBalance > 0 THEN Rat(withdrawal, startingBalance) ELSE Zero

(***************************************************************************)
(* lib/withdrawalStrategies.ts                                             *)
(***************************************************************************)
\* variant: the record's startingBalance is taken after the withdrawal
YearlyWithdrawalAfterWithdrawing(year, startingBalance, withdrawal, endingBalance, withdrawalRate) ==
  [year |-> year, startingBalance |-> startingBalance - withdrawal, withdrawal |-> withdrawal,
   endingBalance |-> endingBalance, withdrawalRate |-> withdrawalRate]

YearlyWithdrawal(year, startingBalance, withdrawal, endingBalance, withdrawalRate) ==
  [year |-> year, startingBalance |-> startingBalance, withdrawal |-> withdrawal,
   endingBalance |-> endingBalance, withdrawalRate |-> withdrawalRate]

\* ---- simulateConstantPercentage --------------------------------------
CPLocals(initialPortfolio) ==
  [year |-> 1, balance |-> initialPortfolio, totalWithdrawn |-> 0,
   minWithdrawal |-> Infinity, maxWithdrawal |-> 0, yearlyResults |-> <<>>]

\* one iteration of the loop
CPIter(s, a) ==
  LET startingBalance == s.balance
      withdrawal == Round(RatMul(FromInt(s.balance), a.withdrawalRate))
      balance == Round(RatMul(FromInt(s.balance - withdrawal), RatAdd(One, a.annualReturn)))
  IN  [year |-> s.year + 1,
       balance |-> balance,
       totalWithdrawn |-> s.totalWithdrawn + withdrawal,
       minWithdrawal |-> MathMin(s.minWithdrawal, withdrawal),
       maxWithdrawal |-> Max(s.maxWithdrawal, withdrawal),
       yearlyResults |-> Append(s.yearlyResults,
          YearlyWithdrawal(s.year, startingBalance, withdrawal, balance, a.withdrawalRate))]

\* variant: the flag follows the final balance instead of being the literal false
CPResultTracksBalance(s, a) ==
  [strategyType |-> "constant_percentage",
   initialPortfolio |-> a.initialPortfolio,
   years |-> a.years,
   annualReturn |-> a.annualReturn,
   yearlyResults |-> s.yearlyResults,
   totalWithdrawn |-> s.totalWithdrawn,
   finalBalance |-> s.balance,
   averageWithdrawal |-> Average(s.totalWithdrawn, a.years),
   minWithdrawal |-> s.minWithdrawal,
   maxWithdrawal |-> s.maxWithdrawal,
   ranOutOfMoney |-> (s.balance = 0),
   depletionYear |-> Undefined]

CPResult(s, a) ==
  [strategyType |-> "constant_percentage",
   initialPortfolio |-> a.initialPortfolio,
   years |-> a.years,
   annualReturn |-> a.annualReturn,
   yearlyResults |-> s.yearlyResults,
   totalWithdrawn |-> s.totalWithdrawn,
   finalBalance |-> s.balance,
   averageWithdrawal |-> Average(s.totalWithdrawn, a.years),
   minWithdrawal |-> s.minWithdrawal,
   maxWithdrawal |-> s.maxWithdrawal,
   ranOutOfMoney |-> FALSE,
   depletionYear |-> Undefined]

\* ---- simulateConstantDollar ------------------------------------------
\* `scheduled` is a history of the loop: the value of `withdrawal` at the
\* top of each iteration, before the affordability check.
CDLocals(initialPortfolio, initialWithdrawal) ==
  [year |-> 1, balance |-> initialPortfolio, withdrawal |-> initialWithdrawal,
   totalWithdrawn |-> 0, minWithdrawal |-> Infinity, maxWithdrawal |-> 0,
   ranOutOfMoney |-> FALSE, depletionYear |-> Undefined, yearlyResults |-> <<>>,
   scheduled |-> <<>>]

\* variant: the withdrawal is not clamped to the balance
AffordableUnclamped(balance, withdrawal) == withdrawal

\* if (balance < withdrawal) withdrawal = balance
Affordable(balance, withdrawal) ==
  IF balance < withdrawal THEN balance ELSE withdrawal

\* if (!depletionYear) depletionYear = year, inside the affordability check
Depletion(depletionYear, clamped, year) ==
  IF clamped /\ depletionYear = Undefined THEN Some(year) ELSE depletionYear

\* the withdrawal planned for the following year (constant_dollar)
NextDollarWithdrawal(withdrawal, balance, inflationRate) ==
  IF balance = 0 THEN 0
  ELSE Round(RatMul(FromInt(withdrawal), RatAdd(One, inflationRate)))

CDIter(s, a) ==
  LET startingBalance == s.balance
      clamped == s.balance < s.withdrawal
      withdrawal == Affordable(s.balance, s.withdrawal)
      effectiveRate == EffectiveRate(withdrawal, startingBalance)
      balance == Grow(s.balance, withdrawal, a.annualReturn)
  IN  [year |-> s.year + 1,
       balance |-> balance,
       withdrawal |-> NextDollarWithdrawal(withdrawal, balance, a.inflationRate),
       totalWithdrawn |-> s.totalWithdrawn + withdrawal,
       minWithdrawal |-> MathMin(s.minWithdrawal, withdrawal),
       maxWithdrawal |-> Max(s.maxWithdrawal, withdrawal),
       ranOutOfMoney |-> (clamped \/ s.ranOutOfMoney),
       depletionYear |-> Depletion(s.depletionYear, clamped, s.year),
       yearlyResults |-> Append(s.yearlyResults,
          YearlyWithdrawal(s.year, startingBalance, withdrawal, balance, effectiveRate)),
       scheduled |-> Append(s.scheduled, s.withdrawal)]

CDResult(s, a) ==
  [strategyType |-> "constant_dollar",
   initialPortfolio |-> a.initialPortfolio,
   years |-> a.years,
   annualReturn |-> a.annualReturn,
   yearlyResults |-> s.yearlyResults,
   totalWithdrawn |-> s.totalWithdrawn,
   finalBalance |-> s.balance,
   averageWithdrawal |-> Average(s.totalWithdrawn, a.years),
   minWithdrawal |-> s.minWithdrawal,
   maxWithdrawal |-> s.maxWithdrawal,
   ranOutOfMoney |-> s.ranOutOfMoney,
   depletionYear |-> s.depletionYear]

\* ---- simulateGuardrails ----------------------------------------------
\* `scheduled` is a history of the loop: the value of `currentWithdrawal`
\* at the top of each iteration.
GLocals(initialPortfolio, config) ==
  [year |-> 1, balance |-> initialPortfolio,
   currentWithdrawal |-> Round(RatMul(FromInt(initialPortfolio), config.initialRate)),
   totalWithdrawn |-> 0, minWithdrawal |-> Infinity, maxWithdrawal |-> 0,
   ranOutOfMoney |-> FALSE, depletionYear |-> Undefined, yearlyResults |-> <<>>,
   scheduled |-> <<>>]

\* variant: a rate exactly on a guardrail is adjusted too
ApplyGuardrailsInclusive(currentWithdrawal, currentRate, config) ==
  IF RatLe(config.floorGuardrail, currentRate)
  THEN Round(RatMul(FromInt(currentWithdrawal), RatSub(One, config.adjustmentPercent)))
  ELSE IF RatLe(currentRate, config.ceilingGuardrail)
  THEN Round(RatMul(FromInt(currentWithdrawal), RatAdd(One, config.adjustmentPercent)))
  ELSE currentWithdrawal

\* "Apply guardrails for next year"
ApplyGuardrails(currentWithdrawal, currentRate, config) ==
  IF RatLt(config.floorGuardrail, currentRate)
  THEN Round(RatMul(FromInt(currentWithdrawal), RatSub(One, config.adjustmentPercent)))
  ELSE IF RatLt(currentRate, config.ceilingGuardrail)
  THEN Round(RatMul(FromInt(currentWithdrawal), RatAdd(One, config.adjustmentPercent)))
  ELSE currentWithdrawal

GIter(s, a) ==
  LET startingBalance == s.balance
      clamped == s.balance < s.currentWithdrawal
      affordable == Affordable(s.balance, s.currentWithdrawal)
      currentRate == EffectiveRate(affordable, startingBalance)
      adjusted == ApplyGuardrails(affordable, currentRate, a.config)
      withdrawal == IF startingBalance > 0 THEN Min(adjusted, startingBalance) ELSE 0
      balance == Grow(s.balance, withdrawal, a.annualReturn)
  IN  [year |-> s.year + 1,
       balance |-> balance,
       currentWithdrawal |-> IF balance = 0 THEN 0 ELSE adjusted,
       totalWithdrawn |-> s.totalWithdrawn + withdrawal,
       minWithdrawal |-> MathMin(s.minWithdrawal, withdrawal),
       maxWithdrawal |-> Max(s.maxWithdrawal, withdrawal),
       ranOutOfMoney |-> (clamped \/ s.ranOutOfMoney),
       depletionYear |-> Depletion(s.depletionYear, clamped, s.year),
       yearlyResults |-> Append(s.yearlyResults,
          YearlyWithdrawal(s.year, startingBalance, withdrawal, balance, currentRate)),
       scheduled |-> Append(s.scheduled, s.currentWithdrawal)]

GResult(s, a) ==
  [strategyType |-> "guardrails",
   initialPortfolio |-> a.initialPortfolio,
   years |-> a.years,
   annualReturn |-> a.annualReturn,
   yearlyResults |-> s.yearlyResults,
   totalWithdrawn |-> s.totalWithdrawn,
   finalBalance |-> s.balance,
   averageWithdrawal |-> Average(s.totalWithdrawn, a.years),
   minWithdrawal |-> s.minWithdrawal,
   maxWithdrawal |-> s.maxWithdrawal,
   ranOutOfMoney |-> s.ranOutOfMoney,
   depletionYear |-> s.depletionYear]

\* ---- the loop condition and the simulators as whole functions ---------
\* variant: the loop stops one year early
InLoopExclusive(year, years) == year < years

\* for (let year = 1; year <= years; year++)
InLoop(year, years) == year <= years

RECURSIVE CPRun(_, _)
CPRun(s, a) == IF InLoop(s.year, a.years) THEN CPRun(CPIter(s, a), a) ELSE s

RECURSIVE CDRun(_, _)
CDRun(s, a) == IF InLoop(s.year, a.years) THEN CDRun(CDIter(s, a), a) ELSE s

RECURSIVE GRun(_, _)
GRun(s, a) == IF InLoop(s.year, a.years) THEN GRun(GIter(s, a), a) ELSE s

CPArgs(initialPortfolio, withdrawalRate, years, annualReturn) ==
  [initialPortfolio |-> initialPortfolio, withdrawalRate |-> withdrawalRate,
   years |-> years, annualReturn |-> annualReturn]

CDArgs(initialPortfolio, initialWithdrawal, years, annualReturn, inflationRate) ==
  [initialPortfolio |-> initialPortfolio, initialWithdrawal |-> initialWithdrawal,
   years |-> years, annualReturn |-> annualReturn, inflationRate |-> inflationRate]

GArgs(initialPortfolio, years, annualReturn, config) ==
  [initialPortfolio |-> initialPortfolio, years |-> years,
   annualReturn |-> annualReturn, config |-> config]

simulateConstantPercentage(initialPortfolio, withdrawalRate, years, annualReturn) ==
  LET a == CPArgs(initialPortfolio, withdrawalRate, years, annualReturn)
  IN  CPResult(CPRun(CPLocals(initialPortfolio), a), a)

simulateConstantDollar(initialPortfolio, initialWithdrawal, years, annualReturn, inflationRate) ==
  LET a == CDArgs(initialPortfolio, initialWithdrawal, years, annualReturn, inflationRate)
  IN  CDResult(CDRun(CDLocals(initialPortfolio, initialWithdrawal), a), a)

simulateGuardrails(initialPortfolio, years, annualReturn, config) ==
  LET a == GArgs(initialPortfolio, years, annualReturn, config)
  IN  GResult(GRun(GLocals(initialPortfolio, config), a), a)

compareStrategies(initialPortfolio, years, annualReturn, monthlyExpenses) ==
  LET initialWithdrawal == monthlyExpenses * 12
  IN  << simulateConstantDollar(initialPortfolio, initialWithdrawal, years, annualReturn,
                                DEFAULT_INFLATION_RATE),
         simulateConstantPercentage(initialPortfolio, Rat(4, 100), years, annualReturn),
         simulateGuardrails(initialPortfolio, years, annualReturn, DEFAULT_GUARDRAILS_CONFIG) >>

(***************************************************************************)
(* tools/withdrawalStrategyTools.ts: the simulateWithdrawalStrategy tool   *)
(***************************************************************************)
\* args.annualWithdrawal ?? args.initialPortfolio * 0.04
DefaultDollarWithdrawal(initialPortfolio) ==
  RatMul(FromInt(initialPortfolio), Rat(4, 100))

\* yearlyResults.slice(0, 5) and yearlyResults.slice(-5), mapped to their summary
YearSummary(y) ==
  [year |-> y.year, withdrawal |-> y.withdrawal, endingBalance |-> y.endingBalance]

FirstFive(yearlyResults) ==
  [i \in 1..Min(5, Len(yearlyResults)) |-> YearSummary(yearlyResults[i])]

LastFive(yearlyResults) ==
  LET n == Len(yearlyResults)
      from == Max(0, n - 5)
  IN  [i \in 1..(n - from) |-> YearSummary(yearlyResults[from + i])]

ToolSummary(result) ==
  [error |-> FALSE,
   strategy |-> StrategyName(result.strategyType),
   initialPortfolio |-> result.initialPortfolio,
   years |-> result.years,
   annualReturn |-> result.annualReturn,
   finalBalance |-> result.finalBalance,
   totalWithdrawn |-> result.totalWithdrawn,
   averageAnnualWithdrawal |-> result.averageWithdrawal,
   minWithdrawal |-> result.minWithdrawal,
   maxWithdrawal |-> result.maxWithdrawal,
   ranOutOfMoney |-> result.ranOutOfMoney,
   depletionYear |-> result.depletionYear,
   firstFiveYears |-> FirstFive(result.yearlyResults),
   lastFiveYears |-> LastFive(result.yearlyResults)]

Unsupported(strategy) ==
  [error |-> TRUE, message |-> "cannot be simulated", strategy |-> strategy]

\* variant: an unknown strategy falls through to the guardrails simulation
SimulateWithdrawalStrategyFallthrough(a) ==
  IF a.strategy \in {"constant_dollar", "constant_percentage"}
  THEN Unsupported(a.strategy)
  ELSE ToolSummary(simulateGuardrails(a.initialPortfolio, a.years, a.annualReturn,
                                      DEFAULT_GUARDRAILS_CONFIG))

\* the handler: a switch on args.strategy
SimulateWithdrawalStrategy(a) ==
  CASE a.strategy = "constant_dollar" ->
         LET withdrawal == IF a.annualWithdrawal = Undefined
                           THEN DefaultDollarWithdrawal(a.initialPortfolio).n
                           ELSE a.annualWithdrawal[1]
         IN  ToolSummary(simulateConstantDollar(a.initialPortfolio, withdrawal, a.years,
                                                a.annualReturn, DEFAULT_INFLATION_RATE))
    [] a.strategy = "constant_percentage" ->
         LET rate == IF a.withdrawalRate = Undefined THEN Rat(4, 100) ELSE a.withdrawalRate[1]
         IN  ToolSummary(simulateConstantPercentage(a.initialPortfolio, rate, a.years,
                                                    a.annualReturn))
    [] a.strategy = "guardrails" ->
         LET config == IF a.guardrailsConfig = Undefined THEN DEFAULT_GUARDRAILS_CONFIG
                       ELSE a.guardrailsConfig[1]
         IN  ToolSummary(simulateGuardrails(a.initialPortfolio, a.years, a.annualReturn, config))
    [] OTHER -> Unsupported(a.strategy)

(***************************************************************************)
(* The simulator state machine.                                            *)
(***************************************************************************)
Portfolios == (0 .. MaxPortfolio) \cup {25, 100}
Withdrawals == 0 .. MaxWithdrawal
Years == 0 .. MaxYears
AnnualReturns == {Rat(-1, 1), Rat(-1, 2), Zero, Rat(1, 2), One}
WithdrawalRates == {Rat(1, 4), Rat(1, 2), Rat(3, 4)}
InflationRates == {Zero, Rat(1, 2)}
GuardrailsConfigs ==
  {DEFAULT_GUARDRAILS_CONFIG,
   [initialRate |-> Rat(1, 2), floorGuardrail |-> Rat(3, 4),
    ceilingGuardrail |-> Rat(1, 4), adjustmentPercent |-> Rat(1, 2)],
   [initialRate |-> Rat(1, 4), floorGuardrail |-> Rat(1, 2),
    ceilingGuardrail |-> Rat(1, 8), adjustmentPercent |-> Rat(1, 4)]}

\* the arguments a tool invocation may carry; the default first-year
\* withdrawal is drawn where it is a whole-dollar amount
ToolArgs ==
  LET base(strategy, ip, y, r) ==
        [strategy |-> strategy, initialPortfolio |-> ip, years |-> y, annualReturn |-> r,
         annualWithdrawal |-> Undefined, withdrawalRate |-> Undefined,
         guardrailsConfig |-> Undefined]
  IN  UNION { UNION { UNION {
        {[base("constant_dollar", ip, y, r) EXCEPT !.annualWithdrawal = w] :
            w \in {Some(x) : x \in {0, MaxWithdrawal}}
                  \cup (IF DefaultDollarWithdrawal(ip).d = 1 THEN {Undefined} ELSE {})}
        \cup {[base("constant_percentage", ip, y, r) EXCEPT !.withdrawalRate = w] :
            w \in {Undefined, Some(Rat(1, 2))}}
        \cup {[base("guardrails", ip, y, r) EXCEPT !.guardrailsConfig = c] :
            c \in {Undefined} \cup {Some(g) : g \in GuardrailsConfigs}}
        \cup {base("bucket", ip, y, r)}
        : r \in AnnualReturns} : y \in Years} : ip \in Portfolios}

InitSim ==
  /\ pc \in {"loop", "call"}
  /\ ret = Undefined
  /\ \/ /\ fn = "simulateConstantPercentage"
        /\ pc = "loop"
        /\ \E ip \in Portfolios, wr \in WithdrawalRates, y \in Years, r \in AnnualReturns :
             /\ args = CPArgs(ip, wr, y, r)
             /\ loc = CPLocals(ip)
     \/ /\ fn = "simulateConstantDollar"
        /\ pc = "loop"
        /\ \E ip \in Portfolios, w \in Withdrawals, y \in Years, r \in AnnualReturns,
              i \in InflationRates :
             /\ args = CDArgs(ip, w, y, r, i)
             /\ loc = CDLocals(ip, w)
     \/ /\ fn = "simulateGuardrails"
        /\ pc = "loop"
        /\ \E ip \in Portfolios, y \in Years, r \in AnnualReturns, c \in GuardrailsConfigs :
             /\ args = GArgs(ip, y, r, c)
             /\ loc = GLocals(ip, c)
     \/ /\ fn = "compareStrategies"
        /\ pc = "call"
        /\ loc = Undefined
        /\ \E ip \in Portfolios, y \in Years, r \in AnnualReturns, m \in 0 .. MaxExpenses :
             args = [initialPortfolio |-> ip, years |-> y, annualReturn |-> r,
                     monthlyExpenses |-> m]
     \/ /\ fn = "simulateWithdrawalStrategy"
        /\ pc = "call"
        /\ loc = Undefined
        /\ args \in ToolArgs

CPStep ==
  /\ fn = "simulateConstantPercentage" /\ pc = "loop"
  /\ InLoop(loc.year, args.years)
  /\ loc' = CPIter(loc, args)
  /\ UNCHANGED <<fn, args, pc, ret>>

CPReturn ==
  /\ fn = "simulateConstantPercentage" /\ pc = "loop"
  /\ ~InLoop(loc.year, args.years)
  /\ ret' = CPResult(loc, args)
  /\ pc' = "done"
  /\ UNCHANGED <<fn, args, loc>>

CDStep ==
  /\ fn = "simulateConstantDollar" /\ pc = "loop"
  /\ InLoop(loc.year, args.years)
  /\ loc' = CDIter(loc, args)
  /\ UNCHANGED <<fn, args, pc, ret>>

CDReturn ==
  /\ fn = "simulateConstantDollar" /\ pc = "loop"
  /\ ~InLoop(loc.year, args.years)
  /\ ret' = CDResult(loc, args)
  /\ pc' = "done"
  /\ UNCHANGED <<fn, args, loc>>

GStep ==
  /\ fn = "simulateGuardrails" /\ pc = "loop"
  /\ InLoop(loc.year, args.years)
  /\ loc' = GIter(loc, args)
  /\ UNCHANGED <<fn, args, pc, ret>>

GReturn ==
  /\ fn = "simulateGuardrails" /\ pc = "loop"
  /\ ~InLoop(loc.year, args.years)
  /\ ret' = GResult(loc, args)
  /\ pc' = "done"
  /\ UNCHANGED <<fn, args, loc>>

Compare ==
  /\ fn = "compareStrategies" /\ pc = "call"
  /\ ret' = compareStrategies(args.initialPortfolio, args.years, args.annualReturn,
                              args.monthlyExpenses)
  /\ pc' = "done"
  /\ UNCHANGED <<fn, args, loc>>

SimulateTool ==
  /\ fn = "simulateWithdrawalStrategy" /\ pc = "call"
  /\ ret' = SimulateWithdrawalStrategy(args)
  /\ pc' = "done"
  /\ UNCHANGED <<fn, args, loc>>

NextSim ==
  \/ CPStep \/ CPReturn
  \/ CDStep \/ CDReturn
  \/ GStep \/ GReturn
  \/ Compare
  \/ SimulateTool

SpecSim == InitSim /\ [][NextSim]_vars

(***************************************************************************)
(* Properties of the simulators.                                           *)
(***************************************************************************)
Simulators == {"simulateConstantPercentage", "simulateConstantDollar", "simulateGuardrails"}

\* the years in which the balance at the start was below the scheduled withdrawal
ClampYears(s) ==
  {k \in 1 .. Len(s.yearlyResults) : s.yearlyResults[k].startingBalance < s.scheduled[k]}

SetMin(S) == CHOOSE x \in S : \A y \in S : x <= y

\* C1: simulateConstantPercentage never returns ranOutOfMoney = true and never
\* sets depletionYear, whatever the portfolio, rate, years and return.
C1_ConstantPercentageNeverRunsOut ==
  (fn = "simulateConstantPercentage" /\ pc = "done") =>
     /\ ret.ranOutOfMoney = FALSE
     /\ ret.depletionYear = Undefined

\* a run that started with money and ended with a balance of 0
C1_Witness ==
  /\ fn = "simulateConstantPercentage" /\ pc = "done"
  /\ args.initialPortfolio > 0 /\ args.years >= 2
  /\ ret.finalBalance = 0
  /\ ret.ranOutOfMoney = FALSE

\* C2: in simulateConstantDollar, every year whose starting balance is below the
\* scheduled withdrawal records the starting balance as its withdrawal, sets
\* ranOutOfMoney, and depletionYear is the first such year from then on; every
\* year after the balance has reached exactly 0 records a withdrawal of 0.
C2_ConstantDollarDepletion ==
  fn = "simulateConstantDollar" =>
     LET yr == loc.yearlyResults
         clamps == ClampYears(loc)
         flag == IF pc = "done" THEN ret.ranOutOfMoney ELSE loc.ranOutOfMoney
         depl == IF pc = "done" THEN ret.depletionYear ELSE loc.depletionYear
     IN  /\ \A k \in clamps : yr[k].withdrawal = yr[k].startingBalance
         /\ clamps # {} => (flag /\ depl = Some(SetMin(clamps)))
         /\ \A k \in 1 .. Len(yr) :
              (\E j \in 1 .. (k - 1) : yr[j].endingBalance = 0) => yr[k].withdrawal = 0

\* the clamp happened in year 2 of 3: year 2 withdrew the rest, year 3 nothing
C2_Witness ==
  /\ fn = "simulateConstantDollar" /\ pc = "done"
  /\ Len(ret.yearlyResults) = 3
  /\ ClampYears(loc) = {2}
  /\ ret.yearlyResults[2].startingBalance > 0
  /\ ret.yearlyResults[2].withdrawal = ret.yearlyResults[2].startingBalance
  /\ ret.yearlyResults[3].withdrawal = 0
  /\ ret.ranOutOfMoney /\ ret.depletionYear = Some(2)

\* C3: in simulateGuardrails the adjustment decided from year k's realized rate
\* changes only the base withdrawal of year k+1: the withdrawal recorded for
\* year k is the balance-clamped amount the realized rate was computed from.
C3_GuardrailsAdjustNextYear ==
  fn = "simulateGuardrails" =>
     LET yr == loc.yearlyResults
         used(k) == Min(loc.scheduled[k], yr[k].startingBalance)
     IN  /\ \A k \in 1 .. Len(yr) : yr[k].withdrawal = used(k)
         /\ \A k \in 1 .. (Len(yr) - 1) :
              loc.scheduled[k + 1] =
                 IF yr[k].endingBalance = 0 THEN 0
                 ELSE ApplyGuardrails(used(k), yr[k].withdrawalRate, args.config)

\* C7: each simulator performs exactly `years` iterations whether or not the
\* portfolio is depleted: yearlyResults has `years` records, numbered 1..years.
C7_ExactlyYearsIterations ==
  (fn \in Simulators /\ pc = "done") =>
     /\ Len(ret.yearlyResults) = args.years
     /\ \A i \in 1 .. Len(ret.yearlyResults) : ret.yearlyResults[i].year = i
     /\ loc.year = args.years + 1

\* the portfolio was empty after year 1 and the run still has every year
C7_Witness ==
  /\ fn \in {"simulateConstantDollar", "simulateGuardrails"} /\ pc = "done"
  /\ args.years = 3 /\ args.initialPortfolio > 0
  /\ ret.yearlyResults[1].endingBalance = 0
  /\ Len(ret.yearlyResults) = 3

\* C8: compareStrategies returns exactly three results, for constant_dollar,
\* constant_percentage and guardrails (never bucket), each echoing the
\* initialPortfolio, years and annualReturn of the call; the
\* simulateWithdrawalStrategy tool answers a bucket request with an
\* unsupported-strategy error result and not with a simulation.
C8_CompareAndUnsupported ==
  /\ (fn = "compareStrategies" /\ pc = "done") =>
        /\ Len(ret) = 3
        /\ {ret[i].strategyType : i \in 1 .. 3} =
              {"constant_dollar", "constant_percentage", "guardrails"}
        /\ \A i \in 1 .. 3 :
              /\ ret[i].initialPortfolio = args.initialPortfolio
              /\ ret[i].years = args.years
              /\ ret[i].annualReturn = args.annualReturn
  /\ (fn = "simulateWithdrawalStrategy" /\ pc = "done") =>
        (ret.error <=> args.strategy = "bucket")

\* a comparison over three years in which the constant-dollar run is depleted
C8_Witness ==
  /\ fn = "compareStrategies" /\ pc = "done"
  /\ args.years = 3 /\ args.initialPortfolio > 0
  /\ Len(ret) = 3
  /\ ret[1].strategyType = "constant_dollar" /\ ret[1].ranOutOfMoney
  /\ ret[2].strategyType = "constant_percentage"
  /\ ret[3].strategyType = "guardrails"

(***************************************************************************)
(* lib/calculations.ts: growth and target math.  Amounts, rates and years  *)
(* are rationals here: the functions accept fractional dollars.            *)
(***************************************************************************)
\* Math.pow(b, e) for a whole number e >= 0
RECURSIVE RatPow(_, _)
RatPow(b, e) == IF e = 0 THEN One ELSE RatMul(b, RatPow(b, e - 1))

calculateCompoundGrowth(principal, monthlyContribution, annualRate, years) ==
  IF RatLe(years, Zero)
  THEN [futureValue |-> Round(principal),
        totalContributions |-> Round(principal),
        totalGrowth |-> 0]
  ELSE LET monthlyRate == RatDiv(annualRate, FromInt(12))
           months == RatMul(years, FromInt(12))
           factor == RatPow(RatAdd(One, monthlyRate), months.n)
           principalFV == RatMul(principal, factor)
           contributionsFV ==
             IF RatLt(Zero, monthlyRate)
             THEN RatMul(monthlyContribution, RatDiv(RatSub(factor, One), monthlyRate))
             ELSE RatMul(monthlyContribution, months)
           futureValue == RatAdd(principalFV, contributionsFV)
           totalContributions == RatAdd(principal, RatMul(monthlyContribution, months))
           totalGrowth == RatSub(futureValue, totalContributions)
       IN  [futureValue |-> Round(futureValue),
            totalContributions |-> Round(totalContributions),
            totalGrowth |-> Round(totalGrowth)]

\* ---- projectRetirementAge --------------------------------------------
Null == <<>>

\* variant: the scan starts at the year after the current one
ProjectLocalsNextYear(currentAge) == [age |-> currentAge + 1]

\* let age = currentAge
ProjectLocals(currentAge) == [age |-> currentAge]

\* variant: the target must be exceeded
ProjectionReachedStrict(futureValue, targetAmount) ==
  RatLt(targetAmount, FromInt(futureValue))

\* projection.futureValue >= targetAmount
ProjectionReached(futureValue, targetAmount) ==
  RatLe(targetAmount, FromInt(futureValue))

\* the projection of one iteration of the scan
Projection(a, age) ==
  calculateCompoundGrowth(a.currentSavings, a.monthlyContribution, a.annualRate,
                          FromInt(age - a.currentAge))

(***************************************************************************)
(* The growth state machine.                                               *)
(***************************************************************************)
MaxSavingsQuarters == 6
MaxContributionQuarters == 2
MaxTargetQuarters == 20
MaxMonths == 12
MaxHorizon == 3

\* the largest numerator or denominator of a compounding factor that keeps
\* the arithmetic within 32-bit integers
MaxFactor == 2 ^ 24

RECURSIVE PowFits(_, _, _)
PowFits(b, e, cap) ==
  IF e = 0 THEN TRUE
  ELSE IF cap \div b = 0 THEN FALSE
  ELSE PowFits(b, e - 1, cap \div b)

\* (1 + annualRate/12)^months is exactly representable
Representable(annualRate, months) ==
  LET base == RatAdd(One, RatDiv(annualRate, FromInt(12)))
  IN  /\ IF base.n <= 1 THEN TRUE ELSE PowFits(base.n, months, MaxFactor)
      /\ IF base.d = 1 THEN TRUE ELSE PowFits(base.d, months, MaxFactor)

Quarters(max) == {Rat(q, 4) : q \in 0 .. max}
GrowthRates == {FromInt(-12), FromInt(-6), Zero, FromInt(6), FromInt(12)}
CurrentAges == {60, 61}
\* targets in quarter dollars, and one that monthly compounding at a positive
\* rate only reaches in the second year
Targets == Quarters(MaxTargetQuarters) \cup {FromInt(2000)}

InitGrowth ==
  /\ ret = Undefined
  /\ \/ /\ fn = "calculateCompoundGrowth"
        /\ pc = "call"
        /\ loc = Undefined
        /\ \E p \in Quarters(MaxSavingsQuarters), c \in Quarters(MaxContributionQuarters),
              r \in GrowthRates, m \in 0 .. MaxMonths :
             args = [principal |-> p, monthlyContribution |-> c, annualRate |-> r,
                     years |-> Rat(m, 12)]
     \/ /\ fn = "projectRetirementAge"
        /\ pc = "loop"
        /\ \E ca \in CurrentAges, h \in -1 .. MaxHorizon,
              p \in Quarters(MaxSavingsQuarters), c \in Quarters(MaxContributionQuarters),
              t \in Targets, r \in GrowthRates :
             /\ Representable(r, 12 * h)
             /\ args = [currentAge |-> ca, currentSavings |-> p, monthlyContribution |-> c,
                        targetAmount |-> t, annualRate |-> r, maxAge |-> ca + h]
             /\ loc = ProjectLocals(ca)

CompoundGrowth ==
  /\ fn = "calculateCompoundGrowth" /\ pc = "call"
  /\ ret' = calculateCompoundGrowth(args.principal, args.monthlyContribution,
                                    args.annualRate, args.years)
  /\ pc' = "done"
  /\ UNCHANGED <<fn, args, loc>>

\* one iteration of the scan: return the age, or go on to the next one
ProjectStep ==
  /\ fn = "projectRetirementAge" /\ pc = "loop"
  /\ loc.age <= args.maxAge
  /\ IF ProjectionReached(Projection(args, loc.age).futureValue, args.targetAmount)
     THEN ret' = Some(loc.age) /\ pc' = "done" /\ loc' = loc
     ELSE loc' = [age |-> loc.age + 1] /\ UNCHANGED <<pc, ret>>
  /\ UNCHANGED <<fn, args>>

\* the scan is over: return null
ProjectReturnNull ==
  /\ fn = "projectRetirementAge" /\ pc = "loop"
  /\ loc.age > args.maxAge
  /\ ret' = Null
  /\ pc' = "done"
  /\ UNCHANGED <<fn, args, loc>>

NextGrowth ==
  \/ CompoundGrowth
  \/ ProjectStep
  \/ ProjectReturnNull

SpecGrowth == InitGrowth /\ [][NextGrowth]_vars

(***************************************************************************)
(* Properties of the growth math.                                          *)
(***************************************************************************)
\* C4: for every principal >= 0, contribution >= 0, rate and years >= 0
\* (fractional dollars included), calculateCompoundGrowth returns
\* futureValue = totalContributions + totalGrowth on its rounded values.
C4_GrowthAddsUp ==
  (fn = "calculateCompoundGrowth" /\ pc = "done") =>
     ret.futureValue = ret.totalContributions + ret.totalGrowth

\* the ages of the scan range whose projection meets the target
ReachingAges(a) ==
  {age \in a.currentAge .. a.maxAge :
     RatLe(a.targetAmount, FromInt(Projection(a, age).futureValue))}

\* C5: projectRetirementAge returns the smallest age in currentAge..maxAge whose
\* projected futureValue is at least targetAmount, and null exactly when there
\* is no such age.
C5_SmallestReachingAge ==
  (fn = "projectRetirementAge" /\ pc = "done") =>
     ret = IF ReachingAges(args) = {} THEN Null ELSE Some(SetMin(ReachingAges(args)))

\* compounding at a positive rate first meets the target two years on
C5_Witness ==
  /\ fn = "projectRetirementAge" /\ pc = "done"
  /\ ret = Some(args.currentAge + 2)
  /\ args.maxAge >= args.currentAge + 2
  /\ RatLt(Zero, args.annualRate)
  /\ RatLt(Zero, args.monthlyContribution)

\* C6 as stated: whenever currentSavings >= targetAmount the result is
\* currentAge, for every currentAge, contribution, rate and maxAge.
C6_AlreadyAtTarget ==
  (fn = "projectRetirementAge" /\ pc = "done"
     /\ RatLe(args.targetAmount, args.currentSavings)) =>
     ret = Some(args.currentAge)

\* C6 as amended: whenever currentAge <= maxAge and currentSavings, rounded to
\* whole dollars, is at least targetAmount, the result is currentAge.
C6_AlreadyAtTargetInRange ==
  (fn = "projectRetirementAge" /\ pc = "done"
     /\ args.currentAge <= args.maxAge
     /\ RatLe(args.targetAmount, FromInt(Round(args.currentSavings)))) =>
     ret = Some(args.currentAge)

C6_Witness ==
  /\ fn = "projectRetirementAge" /\ pc = "done"
  /\ RatLt(Zero, args.targetAmount)
  /\ RatLe(args.targetAmount, args.currentSavings)
  /\ args.maxAge > args.currentAge
  /\ ret = Some(args.currentAge)

(***************************************************************************)
(* lib/calculations.ts: the asset-allocation model.  Percentages are       *)
(* rationals; the input sets draw them in steps of 1/256 of a percentage   *)
(* point, which the program's floating-point sums represent exactly.       *)
(***************************************************************************)
RatAbs(a) == [n |-> Abs(a.n), d |-> a.d]

\* what a call ends with
Return(v) == [kind |-> "return", value |-> v]
Throw(e) == [kind |-> "throw", value |-> e]

ASSET_CLASS_RETURNS ==
  [usStocks |-> Rat(10, 100), internationalStocks |-> Rat(8, 100),
   bonds |-> Rat(4, 100), cash |-> Rat(2, 100)]

AllocationTotal(allocation) ==
  RatAdd(RatAdd(RatAdd(allocation.usStocks, allocation.internationalStocks),
                allocation.bonds), allocation.cash)

\* total.toFixed(1), in tenths
ToFixed1(total) ==
  LET tenths == Round(RatMul(RatAbs(total), FromInt(10)))
  IN  IF total.n < 0 THEN -tenths ELSE tenths

\* variant: no sum is treated as off target
SumOffTargetNever(total) == FALSE

\* Math.abs(total - 100) > 0.01
SumOffTarget(total) == RatLt(Rat(1, 100), RatAbs(RatSub(total, FromInt(100))))

AnyNegative(allocation) ==
  \/ allocation.usStocks.n < 0
  \/ allocation.internationalStocks.n < 0
  \/ allocation.bonds.n < 0
  \/ allocation.cash.n < 0

validateAssetAllocation(allocation) ==
  LET total == AllocationTotal(allocation)
  IN  IF SumOffTarget(total)
      THEN [isValid |-> FALSE,
            error |-> Some(<<"Allocation must sum to 100%, currently sums to", ToFixed1(total)>>)]
      ELSE IF AnyNegative(allocation)
      THEN [isValid |-> FALSE,
            error |-> Some(<<"Allocation percentages cannot be negative">>)]
      ELSE [isValid |-> TRUE, error |-> Undefined]

\* the allocation object after validateAssetAllocation has run on it: the
\* function only reads its fields
AllocationAfterValidate(allocation) == allocation

\* the percentage-weighted sum of the asset-class returns
WeightedReturn(allocation) ==
  RatAdd(RatAdd(RatAdd(
    RatMul(RatDiv(allocation.usStocks, FromInt(100)), ASSET_CLASS_RETURNS.usStocks),
    RatMul(RatDiv(allocation.internationalStocks, FromInt(100)),
           ASSET_CLASS_RETURNS.internationalStocks)),
    RatMul(RatDiv(allocation.bonds, FromInt(100)), ASSET_CLASS_RETURNS.bonds)),
    RatMul(RatDiv(allocation.cash, FromInt(100)), ASSET_CLASS_RETURNS.cash))

\* variant: the allocation is not revalidated
calculateExpectedReturnUnchecked(allocation) == Return(WeightedReturn(allocation))

calculateExpectedReturn(allocation) ==
  LET validation == validateAssetAllocation(allocation)
  IN  IF ~validation.isValid
      THEN Throw(validation.error[1])
      ELSE Return(WeightedReturn(allocation))

(***************************************************************************)
(* The allocation state machine.  loc.allocation is the allocation object  *)
(* the caller passed, args.allocation its value when the call was made.    *)
(***************************************************************************)
MaxDelta == 3

PercentUnit == 2 ^ 8
WholePercents == {-25, 0, 25, 50, 100}
\* whole percentages, and (for usStocks) percentages up to MaxDelta units off
CoarsePercents == {FromInt(w) : w \in WholePercents}
FinePercents ==
  {Rat(PercentUnit * w + d, PercentUnit) : w \in WholePercents, d \in -MaxDelta .. MaxDelta}

Allocations ==
  {[usStocks |-> u, internationalStocks |-> i, bonds |-> b, cash |-> c] :
     u \in FinePercents, i \in CoarsePercents, b \in CoarsePercents, c \in CoarsePercents}

InitAlloc ==
  /\ fn \in {"validateAssetAllocation", "calculateExpectedReturn"}
  /\ pc = "call"
  /\ ret = Undefined
  /\ \E a \in Allocations :
       /\ args = [allocation |-> a]
       /\ loc = [allocation |-> a]

Validate ==
  /\ fn = "validateAssetAllocation" /\ pc = "call"
  /\ ret' = Return(validateAssetAllocation(loc.allocation))
  /\ loc' = [allocation |-> AllocationAfterValidate(loc.allocation)]
  /\ pc' = "done"
  /\ UNCHANGED <<fn, args>>

ExpectedReturn ==
  /\ fn = "calculateExpectedReturn" /\ pc = "call"
  /\ ret' = calculateExpectedReturn(loc.allocation)
  /\ loc' = [allocation |-> AllocationAfterValidate(loc.allocation)]
  /\ pc' = "done"
  /\ UNCHANGED <<fn, args>>

NextAlloc ==
  \/ Validate
  \/ ExpectedReturn

SpecAlloc == InitAlloc /\ [][NextAlloc]_vars

(***************************************************************************)
(* Properties of the allocation model.                                     *)
(***************************************************************************)
\* C9: validateAssetAllocation reports valid if and only if the four
\* percentages sum to within 0.01 of 100 and none is negative; it returns a
\* result for every input (never raises) and leaves the allocation as it was.
C9_ValidIffSumAndSigns ==
  (fn = "validateAssetAllocation" /\ pc = "done") =>
     LET a == args.allocation
         sum == AllocationTotal(a)
     IN  /\ ret.kind = "return"
         /\ ret.value.isValid <=>
              /\ RatLe(Rat(9999, 100), sum) /\ RatLe(sum, Rat(10001, 100))
              /\ \A k \in DOMAIN a : RatLe(Zero, a[k])
         /\ loc.allocation = a

\* accepted although the sum is not exactly 100
C9_Witness ==
  /\ fn = "validateAssetAllocation" /\ pc = "done"
  /\ ret.kind = "return" /\ ret.value.isValid
  /\ RatLt(FromInt(100), AllocationTotal(args.allocation))
  /\ loc.allocation = args.allocation

\* C10 as stated: every allocation validateAssetAllocation accepts gets an
\* expected return in [0.02, 0.10]; every allocation it rejects makes
\* calculateExpectedReturn fail with the validation's reason.
C10_ReturnWithinClassReturns ==
  (fn = "calculateExpectedReturn" /\ pc = "done") =>
     LET validation == validateAssetAllocation(args.allocation)
     IN  IF validation.isValid
         THEN /\ ret.kind = "return"
              /\ RatLe(Rat(2, 100), ret.value) /\ RatLe(ret.value, Rat(10, 100))
         ELSE ret.kind = "throw" /\ ret.value = validation.error[1]

\* C10 as amended: an accepted allocation whose percentages sum to S gets an
\* expected return in [0.02 * S/100, 0.10 * S/100], which is [0.02, 0.10] when
\* S is exactly 100 and lies in [0.019998, 0.10001] for every accepted S; a
\* rejected allocation makes calculateExpectedReturn fail with the
\* validation's reason.
C10_ReturnWithinScaledClassReturns ==
  (fn = "calculateExpectedReturn" /\ pc = "done") =>
     LET validation == validateAssetAllocation(args.allocation)
         share == RatDiv(AllocationTotal(args.allocation), FromInt(100))
     IN  IF validation.isValid
         THEN /\ ret.kind = "return"
              /\ RatLe(RatMul(Rat(2, 100), share), ret.value)
              /\ RatLe(ret.value, RatMul(Rat(10, 100), share))
              /\ RatLe(Rat(19998, 1000000), ret.value)
              /\ RatLe(ret.value, Rat(10001, 100000))
              /\ share = One => (RatLe(Rat(2, 100), ret.value) /\ RatLe(ret.value, Rat(10, 100)))
         ELSE ret.kind = "throw" /\ ret.value = validation.error[1]

\* an accepted allocation of a little over 100% US stocks returns more than 0.10
C10_Witness ==
  /\ fn = "calculateExpectedReturn" /\ pc = "done"
  /\ validateAssetAllocation(args.allocation).isValid
  /\ ret.kind = "return"
  /\ RatLt(Rat(10, 100), ret.value)

(***************************************************************************)
(* lib/calculations.ts, tools/index.ts: the allocation suggested for a     *)
(* time horizon.                                                           *)
(***************************************************************************)
\* variant: the stock share is not capped at 90
StockPercentUncapped(yearsToRetirement) == Max(20, 40 + yearsToRetirement * 2)

\* Math.min(90, Math.max(20, 40 + yearsToRetirement * 2))
StockPercent(yearsToRetirement) == Min(90, Max(20, 40 + yearsToRetirement * 2))

\* Math.min(10, Math.max(3, 15 - yearsToRetirement))
CashPercent(yearsToRetirement) == Min(10, Max(3, 15 - yearsToRetirement))

suggestAllocationByTimeHorizon(yearsToRetirement) ==
  LET stockPercent == StockPercent(yearsToRetirement)
      usStocks == Round(RatMul(FromInt(stockPercent), Rat(7, 10)))
      internationalStocks == Round(RatMul(FromInt(stockPercent), Rat(3, 10)))
      remaining == 100 - usStocks - internationalStocks
      cash == CashPercent(yearsToRetirement)
      bonds == remaining - cash
  IN  [usStocks |-> FromInt(usStocks),
       internationalStocks |-> FromInt(internationalStocks),
       bonds |-> FromInt(Max(0, bonds)),
       cash |-> FromInt(cash)]

describeAllocationStyle(allocation) ==
  LET stockPercent == RatAdd(allocation.usStocks, allocation.internationalStocks)
  IN  IF RatLe(FromInt(80), stockPercent) THEN "very aggressive (stock-heavy)"
      ELSE IF RatLe(FromInt(65), stockPercent) THEN "aggressive"
      ELSE IF RatLe(FromInt(45), stockPercent) THEN "balanced"
      ELSE IF RatLe(FromInt(25), stockPercent) THEN "conservative"
      ELSE "very conservative (bond-heavy)"

HorizonRationale(yearsToRetirement) ==
  IF yearsToRetirement >= 20 THEN "With 20+ years until retirement"
  ELSE IF yearsToRetirement >= 10 THEN "With 10-20 years until retirement"
  ELSE "With less than 10 years until retirement"

\* the suggestAllocation tool handler; an exception of calculateExpectedReturn
\* leaves the handler
SuggestAllocation(params) ==
  LET allocation == suggestAllocationByTimeHorizon(params.yearsToRetirement)
      expectedReturn == calculateExpectedReturn(allocation)
  IN  IF expectedReturn.kind = "throw" THEN expectedReturn
      ELSE Return([success |-> TRUE,
                   yearsToRetirement |-> params.yearsToRetirement,
                   suggestedAllocation |-> allocation,
                   expectedReturn |-> ToFixed1(RatMul(expectedReturn.value, FromInt(100))),
                   style |-> describeAllocationStyle(allocation),
                   rationale |-> HorizonRationale(params.yearsToRetirement)])

(***************************************************************************)
(* lib/calculations.ts, tools/withdrawalRateTools.ts: safe withdrawal      *)
(* rates.                                                                  *)
(***************************************************************************)
SWRGuidance(retirementYears, standardRate, conservativeRate, description) ==
  [retirementYears |-> retirementYears, standardRate |-> standardRate,
   conservativeRate |-> conservativeRate, description |-> description]

SWR_GUIDANCE_TABLE ==
  <<SWRGuidance(20, Rat(50, 1000), Rat(45, 1000), "Short retirement (~20 years)"),
    SWRGuidance(25, Rat(45, 1000), Rat(40, 1000), "Moderate retirement (~25 years)"),
    SWRGuidance(30, Rat(40, 1000), Rat(35, 1000), "Standard retirement (~30 years)"),
    SWRGuidance(35, Rat(35, 1000), Rat(325, 10000), "Long retirement (~35 years)"),
    SWRGuidance(40, Rat(325, 10000), Rat(30, 1000), "Very long retirement (40+ years)")>>

\* insert g into a table sorted by retirementYears, after the entries that do
\* not compare greater (Array.prototype.sort is stable)
RECURSIVE InsertGuidance(_, _)
InsertGuidance(g, sorted) ==
  IF sorted = <<>> THEN <<g>>
  ELSE IF Head(sorted).retirementYears - g.retirementYears > 0
       THEN <<g>> \o sorted
       ELSE <<Head(sorted)>> \o InsertGuidance(g, Tail(sorted))

\* [...table].sort((a, b) => a.retirementYears - b.retirementYears)
RECURSIVE SortGuidance(_)
SortGuidance(table) ==
  IF table = <<>> THEN <<>>
  ELSE InsertGuidance(table[Len(table)], SortGuidance(SubSeq(table, 1, Len(table) - 1)))

\* variant: the bracket must lie strictly above the retirement length
GuidanceCoversStrict(retirementYears, guidance) ==
  RatLt(retirementYears, FromInt(guidance.retirementYears))

\* retirementYears <= guidance.retirementYears
GuidanceCovers(retirementYears, guidance) ==
  RatLe(retirementYears, FromInt(guidance.retirementYears))

\* the for loop over sorted from index i, and the fallback to the last entry
RECURSIVE FirstCovering(_, _, _)
FirstCovering(retirementYears, sorted, i) ==
  IF i > Len(sorted) THEN sorted[Len(sorted)]
  ELSE IF GuidanceCovers(retirementYears, sorted[i]) THEN sorted[i]
  ELSE FirstCovering(retirementYears, sorted, i + 1)

suggestWithdrawalRate(retirementYears) ==
  FirstCovering(retirementYears, SortGuidance(SWR_GUIDANCE_TABLE), 1)

\* x.toFixed(2), in hundredths
ToFixed2(x) ==
  LET hundredths == Round(RatMul(RatAbs(x), FromInt(100)))
  IN  IF x.n < 0 THEN -hundredths ELSE hundredths

calculateRetirementTargetWithSWR(monthlyExpenses, withdrawalRate) ==
  IF RatLe(withdrawalRate, Zero) \/ RatLt(One, withdrawalRate)
  THEN Throw("Withdrawal rate must be between 0 and 1 (e.g., 0.04 for 4%)")
  ELSE Return(Round(RatDiv(RatMul(monthlyExpenses, FromInt(12)), withdrawalRate)))

\* the calculateRetirementTargetWithSWR tool handler: it has no try/catch, so
\* an exception of the library function leaves the handler
CalculateTargetWithSWR(a) ==
  LET target == calculateRetirementTargetWithSWR(a.monthlyExpenses, a.withdrawalRate)
      annualExpenses == RatMul(a.monthlyExpenses, FromInt(12))
      percent == RatMul(a.withdrawalRate, FromInt(100))
  IN  IF target.kind = "throw" THEN target
      ELSE LET multiplier == Round(RatDiv(One, a.withdrawalRate))
           IN  Return([monthlyExpenses |-> a.monthlyExpenses,
                       annualExpenses |-> annualExpenses,
                       withdrawalRate |-> a.withdrawalRate,
                       withdrawalRatePercent |-> ToFixed2(percent),
                       targetSavings |-> target.value,
                       multiplier |-> multiplier,
                       summary |-> <<a.monthlyExpenses, annualExpenses, ToFixed1(percent),
                                     target.value, multiplier>>])

(***************************************************************************)
(* The suggestion state machine: one call of a suggestion function or of a *)
(* tool handler built on it.                                               *)
(***************************************************************************)
MaxYearsToRetirement == 30
MaxRetirementHalfYears == 90

YearsToRetirement == -MaxYearsToRetirement .. MaxYearsToRetirement
\* retirement lengths in half years
RetirementYears == {Rat(h, 2) : h \in -2 .. MaxRetirementHalfYears}
MonthlyExpenses == {Zero, FromInt(1000), FromInt(4000), Rat(5001, 2)}
SWRates ==
  {Rat(-1, 2), Zero, Rat(1, 1000), Rat(35, 1000), Rat(4, 100), One, Rat(1001, 1000), Rat(3, 2)}

InitSuggest ==
  /\ pc = "call"
  /\ ret = Undefined
  /\ loc = Undefined
  /\ \/ /\ fn \in {"suggestAllocationByTimeHorizon", "suggestAllocationTool"}
        /\ \E y \in YearsToRetirement : args = [yearsToRetirement |-> y]
     \/ /\ fn = "suggestWithdrawalRate"
        /\ \E y \in RetirementYears : args = [retirementYears |-> y]
     \/ /\ fn \in {"calculateRetirementTargetWithSWR", "calculateTargetWithSWRTool"}
        /\ \E m \in MonthlyExpenses, w \in SWRates :
             args = [monthlyExpenses |-> m, withdrawalRate |-> w]

SuggestByTimeHorizon ==
  /\ fn = "suggestAllocationByTimeHorizon" /\ pc = "call"
  /\ ret' = Return(suggestAllocationByTimeHorizon(args.yearsToRetirement))
  /\ pc' = "done"
  /\ UNCHANGED <<fn, args, loc>>

SuggestAllocationTool ==
  /\ fn = "suggestAllocationTool" /\ pc = "call"
  /\ ret' = SuggestAllocation(args)
  /\ pc' = "done"
  /\ UNCHANGED <<fn, args, loc>>

SuggestRate ==
  /\ fn = "suggestWithdrawalRate" /\ pc = "call"
  /\ ret' = Return(suggestWithdrawalRate(args.retirementYears))
  /\ pc' = "done"
  /\ UNCHANGED <<fn, args, loc>>

TargetWithSWR ==
  /\ fn = "calculateRetirementTargetWithSWR" /\ pc = "call"
  /\ ret' = calculateRetirementTargetWithSWR(args.monthlyExpenses, args.withdrawalRate)
  /\ pc' = "done"
  /\ UNCHANGED <<fn, args, loc>>

TargetWithSWRTool ==
  /\ fn = "calculateTargetWithSWRTool" /\ pc = "call"
  /\ ret' = CalculateTargetWithSWR(args)
  /\ pc' = "done"
  /\ UNCHANGED <<fn, args, loc>>

NextSuggest ==
  \/ SuggestByTimeHorizon
  \/ SuggestAllocationTool
  \/ SuggestRate
  \/ TargetWithSWR
  \/ TargetWithSWRTool

SpecSuggest == InitSuggest /\ [][NextSuggest]_vars

(***************************************************************************)
(* Properties of the suggestions.                                          *)
(***************************************************************************)
\* C11: for every integer yearsToRetirement the allocation returned by
\* suggestAllocationByTimeHorizon sums to exactly 100, has bonds >= 0 and
\* usStocks + internationalStocks between 20 and 90, and is accepted by
\* validateAssetAllocation (so the suggestAllocation tool returns a result).
C11_SuggestedAllocationIsValid ==
  /\ (fn = "suggestAllocationByTimeHorizon" /\ pc = "done") =>
        LET a == ret.value
            stocks == RatAdd(a.usStocks, a.internationalStocks)
        IN  /\ AllocationTotal(a) = FromInt(100)
            /\ RatLe(Zero, a.bonds)
            /\ RatLe(FromInt(20), stocks) /\ RatLe(stocks, FromInt(90))
            /\ validateAssetAllocation(a).isValid
  /\ (fn = "suggestAllocationTool" /\ pc = "done") =>
        /\ ret.kind = "return"
        /\ ret.value.suggestedAllocation = suggestAllocationByTimeHorizon(args.yearsToRetirement)

\* a horizon long enough for the cap of 90 on stocks to apply
C11_Witness ==
  /\ fn = "suggestAllocationByTimeHorizon" /\ pc = "done"
  /\ args.yearsToRetirement > 25
  /\ RatAdd(ret.value.usStocks, ret.value.internationalStocks) = FromInt(90)
  /\ ret.value.bonds = FromInt(7)

\* the thresholds of the guidance table
Thresholds == {SWR_GUIDANCE_TABLE[i].retirementYears : i \in DOMAIN SWR_GUIDANCE_TABLE}

\* C12: suggestWithdrawalRate returns the table entry with the smallest
\* threshold >= retirementYears, and the 40-year entry when retirementYears
\* exceeds every threshold; 22 selects the 25-year entry, standardRate 0.045.
C12_SmallestCoveringBracket ==
  (fn = "suggestWithdrawalRate" /\ pc = "done") =>
     LET y == args.retirementYears
         covering == {t \in Thresholds : RatLe(y, FromInt(t))}
         g == ret.value
     IN  /\ \E i \in DOMAIN SWR_GUIDANCE_TABLE : g = SWR_GUIDANCE_TABLE[i]
         /\ covering # {} => g.retirementYears = SetMin(covering)
         /\ covering = {} => g.retirementYears = 40
         /\ y = FromInt(22) => (g.retirementYears = 25 /\ g.standardRate = Rat(45, 1000))

C12_Witness ==
  /\ fn = "suggestWithdrawalRate" /\ pc = "done"
  /\ args.retirementYears = FromInt(22)
  /\ ret.value.retirementYears = 25

\* C16: the calculateRetirementTargetWithSWR tool invoked with withdrawalRate
\* <= 0 or > 1 ends with a returned failure result carrying a reason, not with
\* an exception leaving the handler.
C16_ToolReturnsFailureResult ==
  (fn = "calculateTargetWithSWRTool" /\ pc = "done"
     /\ (RatLe(args.withdrawalRate, Zero) \/ RatLt(One, args.withdrawalRate))) =>
     ret.kind = "return"

(***************************************************************************)
(* lib/calculations.ts: income flows.  Ages are whole years; an absent     *)
(* endAge is Undefined.                                                    *)
(***************************************************************************)
IncomeFlow(id, name, type, monthlyAmount, startAge, endAge, inflationAdjusted) ==
  [id |-> id, name |-> name, type |-> type, monthlyAmount |-> monthlyAmount,
   startAge |-> startAge, endAge |-> endAge, inflationAdjusted |-> inflationAdjusted]

\* variant: the end age is an inclusive upper bound
IsActiveInclusive(flow, age) ==
  age >= flow.startAge /\ (IF flow.endAge = Undefined THEN TRUE ELSE age <= flow.endAge[1])

\* age >= flow.startAge && (flow.endAge === undefined || age < flow.endAge)
IsActive(flow, age) ==
  age >= flow.startAge /\ (IF flow.endAge = Undefined THEN TRUE ELSE age < flow.endAge[1])

\* incomeFlows.reduce(..., 0), left to right
RECURSIVE calculateMonthlyIncomeAtAge(_, _)
calculateMonthlyIncomeAtAge(incomeFlows, age) ==
  IF incomeFlows = <<>> THEN Zero
  ELSE LET n == Len(incomeFlows)
           total == calculateMonthlyIncomeAtAge(SubSeq(incomeFlows, 1, n - 1), age)
           flow == incomeFlows[n]
       IN  RatAdd(total, IF IsActive(flow, age) THEN flow.monthlyAmount ELSE Zero)

\* the loop of the non-adjusted branch: the sum of annualAmount / (1 + r)^year
\* for year = 0 .. years - 1
RECURSIVE RealValueTotal(_, _, _)
RealValueTotal(annualAmount, inflationRate, years) ==
  IF years <= 0 THEN Zero
  ELSE RatAdd(RealValueTotal(annualAmount, inflationRate, years - 1),
              RatDiv(annualAmount, RatPow(RatAdd(One, inflationRate), years - 1)))

calculateIncomeFlowLifetimeValue(flow, retirementAge, lifeExpectancy, inflationRate) ==
  LET effectiveStartAge == Max(flow.startAge, retirementAge)
      effectiveEndAge == IF flow.endAge = Undefined THEN lifeExpectancy ELSE flow.endAge[1]
      years == effectiveEndAge - effectiveStartAge
      annualAmount == RatMul(flow.monthlyAmount, FromInt(12))
  IN  IF effectiveStartAge >= effectiveEndAge THEN 0
      ELSE IF flow.inflationAdjusted
           THEN Round(RatMul(annualAmount, FromInt(years)))
           ELSE Round(RealValueTotal(annualAmount, inflationRate, years))

BreakdownEntry(flow, retirementAge, lifeExpectancy, inflationRate) ==
  [name |-> flow.name, monthlyAmount |-> flow.monthlyAmount,
   lifetimeValue |->
     calculateIncomeFlowLifetimeValue(flow, retirementAge, lifeExpectancy, inflationRate)]

\* breakdown.reduce((sum, item) => sum + item.lifetimeValue, 0)
RECURSIVE SumLifetimeValues(_)
SumLifetimeValues(breakdown) ==
  IF breakdown = <<>> THEN 0
  ELSE SumLifetimeValues(SubSeq(breakdown, 1, Len(breakdown) - 1))
         + breakdown[Len(breakdown)].lifetimeValue

\* variant: the savings reduction is taken from the monthly income
SavingsReductionMonthly(totalMonthlyIncome) == Round(RatMul(totalMonthlyIncome, FromInt(25)))

\* Math.round(totalMonthlyIncome * 12 * 25)
SavingsReduction(totalMonthlyIncome) ==
  Round(RatMul(RatMul(totalMonthlyIncome, FromInt(12)), FromInt(25)))

calculateIncomeFlowSummary(incomeFlows, retirementAge, lifeExpectancy, inflationRate) ==
  LET breakdown ==
        [i \in 1 .. Len(incomeFlows) |->
           BreakdownEntry(incomeFlows[i], retirementAge, lifeExpectancy, inflationRate)]
      totalMonthlyIncome == calculateMonthlyIncomeAtAge(incomeFlows, retirementAge)
  IN  [totalMonthlyIncome |-> totalMonthlyIncome,
       totalLifetimeValue |-> SumLifetimeValues(breakdown),
       savingsReduction |-> SavingsReduction(totalMonthlyIncome),
       breakdown |-> breakdown]

\* variant: a flow's inflationAdjusted flag is ignored and the nominal sum returned
LifetimeValueNominal(flow, retirementAge, lifeExpectancy, inflationRate) ==
  calculateIncomeFlowLifetimeValue([flow EXCEPT !.inflationAdjusted = TRUE],
                                   retirementAge, lifeExpectancy, inflationRate)

\* the lifetime value of one flow, as the summary and the callers compute it
LifetimeValue(flow, retirementAge, lifeExpectancy, inflationRate) ==
  calculateIncomeFlowLifetimeValue(flow, retirementAge, lifeExpectancy, inflationRate)

(***************************************************************************)
(* The income state machine: one call of an income function.               *)
(***************************************************************************)
MaxFlows == 2
MaxFlowYears == 3

FirstAge == 64
StartAges == FirstAge .. (FirstAge + 2)
EndAges == {Undefined} \cup {Some(FirstAge + 1 + k) : k \in 0 .. MaxFlowYears}
RetirementAges == {FirstAge + 1, FirstAge + 2}
LifeExpectancies == {FirstAge + 2, FirstAge + 1 + MaxFlowYears}
FlowInflationRates == {Zero, Rat(1, 64), One}
FlowAmounts == {Zero, Rat(1, 16), FromInt(1), FromInt(100), Rat(51, 2)}

\* flows valued one at a time
SingleFlows ==
  {IncomeFlow("inc", "Income", "other", m, s, e, adj) :
     m \in FlowAmounts, s \in StartAges, e \in EndAges, adj \in BOOLEAN}

\* flows that appear in lists
ListedFlows ==
  {IncomeFlow("inc_ss", "Social Security", "social_security", FromInt(100), s, e, TRUE) :
     s \in {FirstAge, FirstAge + 2}, e \in {Undefined, Some(FirstAge + 1), Some(FirstAge + 3)}}
  \cup
  {IncomeFlow("inc_p", "Pension", "pension", Rat(51, 2), s, e, FALSE) :
     s \in {FirstAge, FirstAge + 2}, e \in {Undefined, Some(FirstAge + 1), Some(FirstAge + 3)}}

FlowLists == UNION {[1 .. n -> ListedFlows] : n \in 0 .. MaxFlows}

InitIncome ==
  /\ pc = "call"
  /\ ret = Undefined
  /\ loc = Undefined
  /\ \/ /\ fn = "calculateMonthlyIncomeAtAge"
        /\ \E fl \in FlowLists, age \in FirstAge .. (FirstAge + 3) :
             args = [incomeFlows |-> fl, age |-> age]
     \/ /\ fn = "calculateIncomeFlowLifetimeValue"
        /\ \E f \in SingleFlows, ra \in RetirementAges, le \in LifeExpectancies,
              r \in FlowInflationRates :
             args = [flow |-> f, retirementAge |-> ra, lifeExpectancy |-> le,
                     inflationRate |-> r]
     \/ /\ fn = "calculateIncomeFlowSummary"
        /\ \E fl \in FlowLists, ra \in RetirementAges, le \in LifeExpectancies,
              r \in FlowInflationRates :
             args = [incomeFlows |-> fl, retirementAge |-> ra, lifeExpectancy |-> le,
                     inflationRate |-> r]

MonthlyIncomeAtAge ==
  /\ fn = "calculateMonthlyIncomeAtAge" /\ pc = "call"
  /\ ret' = Return(calculateMonthlyIncomeAtAge(args.incomeFlows, args.age))
  /\ pc' = "done"
  /\ UNCHANGED <<fn, args, loc>>

FlowLifetimeValue ==
  /\ fn = "calculateIncomeFlowLifetimeValue" /\ pc = "call"
  /\ ret' = Return(LifetimeValue(args.flow, args.retirementAge, args.lifeExpectancy,
                                 args.inflationRate))
  /\ pc' = "done"
  /\ UNCHANGED <<fn, args, loc>>

FlowSummary ==
  /\ fn = "calculateIncomeFlowSummary" /\ pc = "call"
  /\ ret' = Return(calculateIncomeFlowSummary(args.incomeFlows, args.retirementAge,
                                              args.lifeExpectancy, args.inflationRate))
  /\ pc' = "done"
  /\ UNCHANGED <<fn, args, loc>>

NextIncome ==
  \/ MonthlyIncomeAtAge
  \/ FlowLifetimeValue
  \/ FlowSummary

SpecIncome == InitIncome /\ [][NextIncome]_vars

(***************************************************************************)
(* Properties of the income functions.                                     *)
(***************************************************************************)
\* the sum of monthlyAmount over the flows with index in S, in no particular order
RECURSIVE SumAmounts(_, _)
SumAmounts(S, flows) ==
  IF S = {} THEN Zero
  ELSE LET i == CHOOSE i \in S : TRUE
       IN  RatAdd(flows[i].monthlyAmount, SumAmounts(S \ {i}, flows))

Orderings(n) == {p \in [1 .. n -> 1 .. n] : \A i, j \in 1 .. n : i # j => p[i] # p[j]}

PayingYears ==
  LET endAge == IF args.flow.endAge = Undefined THEN args.lifeExpectancy
                ELSE args.flow.endAge[1]
  IN  endAge - Max(args.flow.startAge, args.retirementAge)

NominalValue == RatMul(RatMul(args.flow.monthlyAmount, FromInt(12)), FromInt(PayingYears))

\* C14 as stated: for a flow that pays for at least one year, the lifetime
\* value is exactly monthlyAmount * 12 * years when the flow is inflation
\* adjusted, and strictly less than that when it is not and inflation is positive.
C14_AdjustedExactUnadjustedLess ==
  (fn = "calculateIncomeFlowLifetimeValue" /\ pc = "done" /\ PayingYears >= 1) =>
     /\ args.flow.inflationAdjusted => FromInt(ret.value) = NominalValue
     /\ (~args.flow.inflationAdjusted /\ RatLt(Zero, args.inflationRate)) =>
          RatLt(FromInt(ret.value), NominalValue)

\* the purchasing power the second paid year loses: annualAmount * r / (1 + r)
FirstErosion ==
  RatDiv(RatMul(RatMul(args.flow.monthlyAmount, FromInt(12)), args.inflationRate),
         RatAdd(One, args.inflationRate))

\* C14 as amended: for a flow that pays for at least one year, the lifetime
\* value is monthlyAmount * 12 * years rounded to whole dollars when the flow
\* is inflation adjusted; when it is not and inflation is positive, the value
\* is never more than that rounded nominal sum, equals it when the flow pays
\* for one year only, and is strictly less than monthlyAmount * 12 * years
\* when the flow pays for two years or more and the second year loses more
\* than half a dollar.
C14_AdjustedRoundedUnadjustedAtMost ==
  (fn = "calculateIncomeFlowLifetimeValue" /\ pc = "done" /\ PayingYears >= 1) =>
     /\ args.flow.inflationAdjusted => ret.value = Round(NominalValue)
     /\ (~args.flow.inflationAdjusted /\ RatLt(Zero, args.inflationRate)) =>
          /\ ret.value <= Round(NominalValue)
          /\ PayingYears = 1 => ret.value = Round(NominalValue)
          /\ (PayingYears >= 2 /\ RatLt(Rat(1, 2), FirstErosion)) =>
               RatLt(FromInt(ret.value), NominalValue)

\* a non-adjusted flow paying for three years under positive inflation, worth
\* less than its nominal sum
C14_Witness ==
  /\ fn = "calculateIncomeFlowLifetimeValue" /\ pc = "done"
  /\ ~args.flow.inflationAdjusted
  /\ RatLt(Zero, args.inflationRate)
  /\ PayingYears = 3
  /\ RatLt(Rat(1, 2), FirstErosion)
  /\ RatLt(FromInt(ret.value), NominalValue)

\* C15: calculateIncomeFlowSummary returns one breakdown entry per flow,
\* totalLifetimeValue equal to the sum of the breakdown's lifetime values,
\* totalMonthlyIncome equal to calculateMonthlyIncomeAtAge(flows, retirementAge)
\* and savingsReduction equal to round(totalMonthlyIncome * 12 * 25); for the
\* empty list the three aggregates are 0 and the breakdown is empty.
C15_SummaryAggregates ==
  (fn = "calculateIncomeFlowSummary" /\ pc = "done") =>
     LET flows == args.incomeFlows
         r == ret.value
         n == Len(flows)
     IN  /\ Len(r.breakdown) = n
         /\ \A i \in 1 .. n :
              /\ r.breakdown[i].name = flows[i].name
              /\ r.breakdown[i].monthlyAmount = flows[i].monthlyAmount
              /\ r.breakdown[i].lifetimeValue =
                   calculateIncomeFlowLifetimeValue(flows[i], args.retirementAge,
                                                    args.lifeExpectancy, args.inflationRate)
         /\ SumLifetimeValues(r.breakdown) = r.totalLifetimeValue
         /\ r.totalMonthlyIncome = calculateMonthlyIncomeAtAge(flows, args.retirementAge)
         /\ r.savingsReduction = Round(RatMul(r.totalMonthlyIncome, FromInt(300)))
         /\ n = 0 => /\ r.totalMonthlyIncome = Zero
                     /\ r.totalLifetimeValue = 0
                     /\ r.savingsReduction = 0
                     /\ r.breakdown = <<>>

\* two flows paying at retirement, both counted
C15_Witness ==
  /\ fn = "calculateIncomeFlowSummary" /\ pc = "done"
  /\ Len(args.incomeFlows) = 2
  /\ ret.value.totalMonthlyIncome = Rat(251, 2)
  /\ ret.value.savingsReduction = 37650
  /\ ret.value.totalLifetimeValue
       = ret.value.breakdown[1].lifetimeValue + ret.value.breakdown[2].lifetimeValue
  /\ ret.value.breakdown[1].lifetimeValue > 0
  /\ ret.value.breakdown[2].lifetimeValue > 0

(***************************************************************************)
(* lib/profile.ts: the profile store.  The profile file is absent (<<>>)   *)
(* or holds a text; a well-formed text is the JSON document of a profile,  *)
(* modelled as the sequence of its <<key, value>> members.  Timestamps are *)
(* readings of a clock; the empty savedAt string is the reading 0.         *)
(***************************************************************************)
UserProfile(age, targetRetirementAge, maritalStatus, currentSavings, monthlyContribution, riskTolerance, assetAllocation, expectedMonthlyExpenses, incomeFlows, savedAt) ==
  [age |-> age, targetRetirementAge |-> targetRetirementAge, maritalStatus |-> maritalStatus,
   currentSavings |-> currentSavings, monthlyContribution |-> monthlyContribution,
   riskTolerance |-> riskTolerance, assetAllocation |-> assetAllocation,
   expectedMonthlyExpenses |-> expectedMonthlyExpenses, incomeFlows |-> incomeFlows,
   savedAt |-> savedAt]

RequiredKeys ==
  <<"age", "targetRetirementAge", "maritalStatus", "currentSavings", "monthlyContribution",
    "riskTolerance", "savedAt">>
OptionalKeys == <<"assetAllocation", "expectedMonthlyExpenses", "incomeFlows">>

\* JSON.stringify(profile): a member per property; a property that is
\* undefined has no member
Stringify(profile) ==
  LET present == SelectSeq(OptionalKeys, LAMBDA k : profile[k] # Undefined)
  IN  [i \in 1 .. Len(RequiredKeys) |-> <<RequiredKeys[i], profile[RequiredKeys[i]]>>]
      \o [i \in 1 .. Len(present) |-> <<present[i], profile[present[i]][1]>>]

\* the value of key k in a document, as an optional
Member(document, k) ==
  LET at == {i \in 1 .. Len(document) : document[i][1] = k}
  IN  IF at = {} THEN Undefined ELSE Some(document[CHOOSE i \in at : TRUE][2])

\* JSON.parse(data) as UserProfile: a property per member
Parse(document) ==
  [k \in {RequiredKeys[i] : i \in 1 .. Len(RequiredKeys)}
         \cup {OptionalKeys[i] : i \in 1 .. Len(OptionalKeys)} |->
     IF \E i \in 1 .. Len(RequiredKeys) : RequiredKeys[i] = k
     THEN Member(document, k)[1]
     ELSE Member(document, k)]

Absent == <<>>
FileText(document) == <<[wellFormed |-> TRUE, json |-> document]>>
\* a file whose text is not JSON
Garbled == <<[wellFormed |-> FALSE, json |-> <<>>]>>

\* access(path) succeeds
profileExists(file) == file # Absent

loadProfile(file) ==
  IF file = Absent
  THEN [found |-> FALSE, profile |-> Null, error |-> Undefined]
  ELSE IF ~file[1].wellFormed
  THEN [found |-> FALSE, profile |-> Null, error |-> Some("Unexpected token in JSON")]
  ELSE [found |-> TRUE, profile |-> Some(Parse(file[1].json)), error |-> Undefined]

\* variant: a savedAt the caller supplied is kept
ProfileWithCallerTimestamp(profile, now) ==
  IF profile.savedAt = 0 THEN [profile EXCEPT !.savedAt = now] ELSE profile

\* { ...profile, savedAt: new Date().toISOString() }
ProfileWithTimestamp(profile, now) == [profile EXCEPT !.savedAt = now]

\* saveProfile at clock reading now; written tells whether mkdir and writeFile
\* succeed.  The result and the file afterwards.
saveProfile(profile, file, now, written) ==
  IF written
  THEN [result |-> [success |-> TRUE, path |-> "profile.json", error |-> Undefined],
        file |-> FileText(Stringify(ProfileWithTimestamp(profile, now)))]
  ELSE [result |-> [success |-> FALSE, path |-> "profile.json",
                    error |-> Some("EACCES: permission denied")],
        file |-> file]

\* deleteProfile: unlink fails when there is no file
deleteProfile(file) ==
  IF file = Absent THEN [result |-> FALSE, file |-> file]
  ELSE [result |-> TRUE, file |-> Absent]

(***************************************************************************)
(* The store state machine: a sequence of calls of the store's functions.  *)
(* loc.file is the profile file, loc.now the clock, loc.stamp the reading  *)
(* the last save took.                                                     *)
(***************************************************************************)
MaxClock == 6

SampleAllocation ==
  [usStocks |-> FromInt(60), internationalStocks |-> FromInt(20),
   bonds |-> FromInt(15), cash |-> FromInt(5)]
SampleFlows ==
  <<IncomeFlow(1, "Bridge job", "part_time_work", FromInt(1500), 60, Some(65), FALSE),
    IncomeFlow(2, "Social Security", "social_security", FromInt(2000), 67, Undefined, TRUE)>>

\* profiles handed to saveProfile; savedAt is empty (0) or a reading the
\* caller made up
StoreProfiles ==
  {UserProfile(40, 65, "single", FromInt(1000), FromInt(500), "moderate", a, e, f, t) :
     a \in {Undefined, Some(SampleAllocation)},
     e \in {Undefined, Some(FromInt(4000))},
     f \in {Undefined} \cup {Some(SubSeq(SampleFlows, 1, n)) : n \in 0 .. 2},
     t \in {0, 99}}

InitStore ==
  /\ fn = "none"
  /\ args = Undefined
  /\ ret = Undefined
  /\ pc = "idle"
  /\ \E f \in {Absent, Garbled} : loc = [file |-> f, now |-> 1, stamp |-> 0]

StoreSave ==
  /\ loc.now < MaxClock
  /\ \E profile \in StoreProfiles, written \in BOOLEAN :
       LET saved == saveProfile(profile, loc.file, loc.now, written)
       IN  /\ fn' = "saveProfile"
           /\ args' = [profile |-> profile]
           /\ ret' = saved.result
           /\ loc' = [file |-> saved.file, now |-> loc.now + 1, stamp |-> loc.now]
  /\ pc' = "idle"

StoreLoad ==
  /\ fn' = "loadProfile"
  /\ args' = Undefined
  /\ ret' = loadProfile(loc.file)
  /\ UNCHANGED <<loc, pc>>

StoreExists ==
  /\ fn' = "profileExists"
  /\ args' = Undefined
  /\ ret' = profileExists(loc.file)
  /\ UNCHANGED <<loc, pc>>

StoreDelete ==
  /\ fn' = "deleteProfile"
  /\ args' = Undefined
  /\ ret' = deleteProfile(loc.file).result
  /\ loc' = [loc EXCEPT !.file = deleteProfile(loc.file).file]
  /\ UNCHANGED pc

NextStore ==
  \/ StoreSave
  \/ StoreLoad
  \/ StoreExists
  \/ StoreDelete

SpecStore == InitStore /\ [][NextStore]_vars

(***************************************************************************)
(* Properties of the store.                                                *)
(***************************************************************************)
\* C18: a successful save(profile) followed by load() returns found = true
\* with every field of the saved profile unchanged except savedAt, which is
\* the store's clock reading at the save whatever the caller supplied; a
\* delete() after that returns true and makes exists() false; delete() with
\* no profile stored returns false.
C18_SaveLoadDelete ==
  [][/\ (fn = "saveProfile" /\ ret.success /\ fn' = "loadProfile") =>
          /\ ret'.found
          /\ ret'.error = Undefined
          /\ ret'.profile = Some([args.profile EXCEPT !.savedAt = loc.stamp])
     /\ (profileExists(loc.file) /\ fn' = "deleteProfile") =>
          /\ ret' = TRUE
          /\ ~profileExists(loc'.file)
     /\ (fn = "deleteProfile" /\ fn' = "profileExists") => ret' = FALSE
     /\ (~profileExists(loc.file) /\ fn' = "deleteProfile") =>
          /\ ret' = FALSE
          /\ loc' = loc]_vars

\* a profile with an allocation, no expenses and two flows was saved with a
\* made-up savedAt and loaded back with the store's reading
C18_Witness ==
  /\ fn = "loadProfile"
  /\ ret.found
  /\ ret.profile[1].savedAt = loc.stamp
  /\ loc.stamp > 0
  /\ ret.profile[1].assetAllocation = Some(SampleAllocation)
  /\ ret.profile[1].expectedMonthlyExpenses = Undefined
  /\ ret.profile[1].incomeFlows = Some(SampleFlows)

(***************************************************************************)
(* tools/profileTools.ts, tools/incomeFlowTools.ts, tools/index.ts: the    *)
(* tools that read and write the stored profile.  fn, args, pc and ret are *)
(* functions of the invocation; loc.file is the profile file, loc.now the  *)
(* clock, loc.nextId the next income flow id, loc.local[p] the locals of   *)
(* invocation p.  A handler takes one step per store call it awaits.       *)
(***************************************************************************)
\* the state a step of invocation p leads to
Step(p, newPc, result, file, now, nextId, local) ==
  /\ pc' = [pc EXCEPT ![p] = newPc]
  /\ ret' = [ret EXCEPT ![p] = result]
  /\ loc' = [file |-> file, now |-> now, nextId |-> nextId,
             local |-> [loc.local EXCEPT ![p] = local]]
  /\ UNCHANGED <<fn, args>>

\* the handler's locals: the profile it loaded and the result of the
\* saveProfile call it awaited
Locals(profile, saveResult) == [profile |-> profile, saveResult |-> saveResult]
NoLocals == Locals(Undefined, Undefined)

\* a step that ends the handler with a result and leaves the store alone
Finish(p, result) == Step(p, "done", result, loc.file, loc.now, loc.nextId, NoLocals)

At(p, tool, position) == fn[p] = tool /\ pc[p] = position

\* ---- loadUserProfile -------------------------------------------------
LoadUserProfileCheck(p) ==
  /\ At(p, "loadUserProfile", "start")
  /\ IF ~profileExists(loc.file)
     THEN Finish(p, [found |-> FALSE, profile |-> Null, error |-> Undefined,
                     summary |-> <<"No saved profile found. This appears to be a new user.">>])
     ELSE Step(p, "exists", Undefined, loc.file, loc.now, loc.nextId, NoLocals)

LoadUserProfileLoad(p) ==
  /\ At(p, "loadUserProfile", "exists")
  /\ LET result == loadProfile(loc.file)
     IN  IF ~result.found \/ result.profile = Null
         THEN Finish(p, [found |-> FALSE, profile |-> Null, error |-> result.error,
                         summary |-> IF result.error # Undefined
                                     THEN <<"Error loading profile", result.error[1]>>
                                     ELSE <<"No saved profile found.">>])
         ELSE Finish(p, [found |-> TRUE, profile |-> result.profile, error |-> Undefined,
                         summary |-> <<"Found saved profile", result.profile[1].age,
                                       result.profile[1].maritalStatus,
                                       result.profile[1].currentSavings,
                                       result.profile[1].savedAt>>])

\* ---- saveUserProfile -------------------------------------------------
\* the profile the handler builds from its arguments
ProfileFromArgs(a) ==
  UserProfile(a.age, a.targetRetirementAge, a.maritalStatus, a.currentSavings,
              a.monthlyContribution, a.riskTolerance, Undefined,
              a.expectedMonthlyExpenses, Undefined, 0)

SaveUserProfile(p) ==
  /\ At(p, "saveUserProfile", "start")
  /\ \E written \in BOOLEAN :
       LET saved == saveProfile(ProfileFromArgs(args[p]), loc.file, loc.now, written)
           result ==
             IF ~saved.result.success
             THEN [success |-> FALSE, error |-> saved.result.error,
                   summary |-> <<"Failed to save profile", saved.result.error>>]
             ELSE [success |-> TRUE, path |-> saved.result.path,
                   summary |-> <<"Profile saved successfully.">>]
       IN  Step(p, "done", result, saved.file, loc.now + 1, loc.nextId,
                Locals(Undefined, Some(saved.result)))

\* ---- checkProfileExists ----------------------------------------------
CheckProfileExists(p) ==
  /\ At(p, "checkProfileExists", "start")
  /\ Finish(p, [exists |-> profileExists(loc.file),
                summary |-> IF profileExists(loc.file)
                            THEN <<"A saved profile exists for this user.">>
                            ELSE <<"No saved profile found. This is a new user.">>])

\* ---- deleteUserProfile -----------------------------------------------
DeleteUserProfileCheck(p) ==
  /\ At(p, "deleteUserProfile", "start")
  /\ IF ~profileExists(loc.file)
     THEN Finish(p, [deleted |-> FALSE, summary |-> <<"No profile to delete.">>])
     ELSE Step(p, "exists", Undefined, loc.file, loc.now, loc.nextId, NoLocals)

DeleteUserProfileDelete(p) ==
  /\ At(p, "deleteUserProfile", "exists")
  /\ LET deleted == deleteProfile(loc.file)
     IN  Step(p, "done",
              [deleted |-> deleted.result,
               summary |-> IF deleted.result THEN <<"Profile deleted successfully.">>
                           ELSE <<"Failed to delete profile.">>],
              deleted.file, loc.now, loc.nextId, NoLocals)

\* ---- addIncomeFlow ---------------------------------------------------
\* profile.incomeFlows ?? []
FlowsOf(profile) == IF profile.incomeFlows = Undefined THEN <<>> ELSE profile.incomeFlows[1]

AddIncomeFlowLoad(p) ==
  /\ At(p, "addIncomeFlow", "start")
  /\ LET result == loadProfile(loc.file)
     IN  IF ~result.found \/ result.profile = Null
         THEN Finish(p, [success |-> FALSE,
                         error |-> Some("No profile found. Please set up your profile first."),
                         summary |-> <<"Could not add income flow - no profile exists yet.">>])
         ELSE Step(p, "loaded", Undefined, loc.file, loc.now, loc.nextId,
                   Locals(result.profile, Undefined))

\* variant: the handler reads the profile again when it saves
AddIncomeFlowSaveReloading(p) ==
  /\ At(p, "addIncomeFlow", "loaded")
  /\ \E written \in BOOLEAN :
       LET profile == loadProfile(loc.file).profile[1]
           a == args[p]
           newFlow == IncomeFlow(loc.nextId, a.name, a.type, a.monthlyAmount, a.startAge,
                                 a.endAge, a.inflationAdjusted)
           updatedProfile ==
             [profile EXCEPT !.incomeFlows = Some(Append(FlowsOf(profile), newFlow))]
           saved == saveProfile(updatedProfile, loc.file, loc.now, written)
           result ==
             IF ~saved.result.success
             THEN [success |-> FALSE, error |-> saved.result.error,
                   summary |-> <<"Failed to save income flow", saved.result.error>>]
             ELSE [success |-> TRUE, incomeFlow |-> newFlow,
                   summary |-> <<"Added", a.name, a.monthlyAmount, a.startAge, a.endAge,
                                 a.inflationAdjusted>>]
       IN  Step(p, "done", result, saved.file, loc.now + 1, loc.nextId + 1,
                Locals(Undefined, Some(saved.result)))

AddIncomeFlowSave(p) ==
  /\ At(p, "addIncomeFlow", "loaded")
  /\ \E written \in BOOLEAN :
       LET profile == loc.local[p].profile[1]
           a == args[p]
           newFlow == IncomeFlow(loc.nextId, a.name, a.type, a.monthlyAmount, a.startAge,
                                 a.endAge, a.inflationAdjusted)
           updatedProfile ==
             [profile EXCEPT !.incomeFlows = Some(Append(FlowsOf(profile), newFlow))]
           saved == saveProfile(updatedProfile, loc.file, loc.now, written)
           result ==
             IF ~saved.result.success
             THEN [success |-> FALSE, error |-> saved.result.error,
                   summary |-> <<"Failed to save income flow", saved.result.error>>]
             ELSE [success |-> TRUE, incomeFlow |-> newFlow,
                   summary |-> <<"Added", a.name, a.monthlyAmount, a.startAge, a.endAge,
                                 a.inflationAdjusted>>]
       IN  Step(p, "done", result, saved.file, loc.now + 1, loc.nextId + 1,
                Locals(Undefined, Some(saved.result)))

\* ---- removeIncomeFlow ------------------------------------------------
\* variant: the filter drops the flow and everything after it
FlowsBefore(incomeFlows, id) ==
  LET at == {i \in 1 .. Len(incomeFlows) : incomeFlows[i].id = id}
  IN  IF at = {} THEN incomeFlows
      ELSE SubSeq(incomeFlows, 1, (CHOOSE i \in at : \A j \in at : i <= j) - 1)

\* incomeFlows.filter((f) => f.id !== id)
FlowsWithout(incomeFlows, id) == SelectSeq(incomeFlows, LAMBDA f : f.id # id)

\* variant: a find that falls back to the first flow
FlowWithOrFirst(incomeFlows, id) ==
  LET at == {i \in 1 .. Len(incomeFlows) : incomeFlows[i].id = id}
  IN  IF incomeFlows = <<>> THEN Undefined
      ELSE IF at = {} THEN Some(incomeFlows[1])
      ELSE Some(incomeFlows[CHOOSE i \in at : \A j \in at : i <= j])

\* incomeFlows.find((f) => f.id === id), as an optional
FlowWith(incomeFlows, id) ==
  LET at == {i \in 1 .. Len(incomeFlows) : incomeFlows[i].id = id}
  IN  IF at = {} THEN Undefined
      ELSE Some(incomeFlows[CHOOSE i \in at : \A j \in at : i <= j])

RemoveIncomeFlowLoad(p) ==
  /\ At(p, "removeIncomeFlow", "start")
  /\ LET result == loadProfile(loc.file)
     IN  IF ~result.found \/ result.profile = Null
         THEN Finish(p, [success |-> FALSE, error |-> Some("No profile found."),
                         summary |-> <<"Could not remove income flow - no profile exists.">>])
         ELSE IF FlowWith(FlowsOf(result.profile[1]), args[p].incomeFlowId) = Undefined
         THEN Finish(p, [success |-> FALSE, error |-> Some("Income flow not found."),
                         summary |-> <<"No income flow found with ID", args[p].incomeFlowId>>])
         ELSE Step(p, "loaded", Undefined, loc.file, loc.now, loc.nextId,
                   Locals(result.profile, Undefined))

RemoveIncomeFlowSave(p) ==
  /\ At(p, "removeIncomeFlow", "loaded")
  /\ \E written \in BOOLEAN :
       LET profile == loc.local[p].profile[1]
           flowToRemove == FlowWith(FlowsOf(profile), args[p].incomeFlowId)[1]
           updatedProfile ==
             [profile EXCEPT
                !.incomeFlows = Some(FlowsWithout(FlowsOf(profile), args[p].incomeFlowId))]
           saved == saveProfile(updatedProfile, loc.file, loc.now, written)
           result ==
             IF ~saved.result.success
             THEN [success |-> FALSE, error |-> saved.result.error,
                   summary |-> <<"Failed to remove income flow", saved.result.error>>]
             ELSE [success |-> TRUE, removedFlow |-> flowToRemove,
                   summary |-> <<"Removed income flow", flowToRemove.name>>]
       IN  Step(p, "done", result, saved.file, loc.now + 1, loc.nextId,
                Locals(Undefined, Some(saved.result)))

\* ---- setAssetAllocation ----------------------------------------------
PRESET_ALLOCATIONS ==
  [conservative |-> [usStocks |-> FromInt(20), internationalStocks |-> FromInt(10),
                     bonds |-> FromInt(60), cash |-> FromInt(10)],
   moderate |-> [usStocks |-> FromInt(40), internationalStocks |-> FromInt(20),
                 bonds |-> FromInt(35), cash |-> FromInt(5)],
   aggressive |-> [usStocks |-> FromInt(55), internationalStocks |-> FromInt(30),
                   bonds |-> FromInt(12), cash |-> FromInt(3)]]

SetAssetAllocationLoad(p) ==
  /\ At(p, "setAssetAllocation", "start")
  /\ LET validation == validateAssetAllocation(args[p])
         result == loadProfile(loc.file)
     IN  IF ~validation.isValid
         THEN Finish(p, [success |-> FALSE, error |-> validation.error])
         ELSE IF ~result.found \/ result.profile = Null
         THEN Finish(p, [success |-> FALSE,
                         error |-> Some(<<"No profile found. Please create a profile first.">>)])
         ELSE Step(p, "loaded", Undefined, loc.file, loc.now, loc.nextId,
                   Locals(result.profile, Undefined))

\* the result of a store save the handler awaits without looking at it
SetAllocationOutcome(allocation, saveResult) ==
  LET expectedReturn == calculateExpectedReturn(allocation).value
      style == describeAllocationStyle(allocation)
      percent == ToFixed1(RatMul(expectedReturn, FromInt(100)))
  IN  [success |-> TRUE, allocation |-> allocation, expectedReturn |-> percent,
       style |-> style, message |-> <<"Asset allocation set", allocation, percent, style>>]

SetAssetAllocationSave(p) ==
  /\ At(p, "setAssetAllocation", "loaded")
  /\ \E written \in BOOLEAN :
       LET profile == [loc.local[p].profile[1] EXCEPT !.assetAllocation = Some(args[p]),
                                              !.savedAt = loc.now]
           saved == saveProfile(profile, loc.file, loc.now, written)
       IN  Step(p, "done", SetAllocationOutcome(args[p], saved.result),
                saved.file, loc.now + 1, loc.nextId, Locals(Undefined, Some(saved.result)))

\* ---- clearCustomAllocation -------------------------------------------
ClearCustomAllocationLoad(p) ==
  /\ At(p, "clearCustomAllocation", "start")
  /\ LET result == loadProfile(loc.file)
     IN  IF ~result.found \/ result.profile = Null
         THEN Finish(p, [success |-> FALSE, error |-> Some("No profile found.")])
         ELSE IF result.profile[1].assetAllocation = Undefined
         THEN Finish(p, [success |-> TRUE,
                         message |-> <<"No custom allocation was set.",
                                       result.profile[1].riskTolerance>>])
         ELSE Step(p, "loaded", Undefined, loc.file, loc.now, loc.nextId,
                   Locals(result.profile, Undefined))

ClearAllocationOutcome(profile, saveResult) ==
  LET presetAllocation == PRESET_ALLOCATIONS[profile.riskTolerance]
      expectedReturn == calculateExpectedReturn(presetAllocation).value
  IN  [success |-> TRUE,
       message |-> <<"Custom allocation cleared.", profile.riskTolerance,
                     ToFixed1(RatMul(expectedReturn, FromInt(100)))>>,
       allocation |-> presetAllocation]

ClearCustomAllocationSave(p) ==
  /\ At(p, "clearCustomAllocation", "loaded")
  /\ \E written \in BOOLEAN :
       LET profile == [loc.local[p].profile[1] EXCEPT !.assetAllocation = Undefined,
                                              !.savedAt = loc.now]
           saved == saveProfile(profile, loc.file, loc.now, written)
       IN  Step(p, "done", ClearAllocationOutcome(profile, saved.result),
                saved.file, loc.now + 1, loc.nextId, Locals(Undefined, Some(saved.result)))

(***************************************************************************)
(* The profile tool state machine: tool invocations, one after another.    *)
(***************************************************************************)
MaxIds == 2

SaveProfileArgs ==
  {[age |-> 40, targetRetirementAge |-> 65, maritalStatus |-> "single",
    currentSavings |-> FromInt(c), monthlyContribution |-> FromInt(500),
    riskTolerance |-> "moderate", expectedMonthlyExpenses |-> e] :
     c \in {1000, 2000}, e \in {Undefined, Some(FromInt(4000))}}

AddIncomeFlowArgs ==
  {[name |-> "Pension", type |-> "pension", monthlyAmount |-> FromInt(1500),
    startAge |-> 60, endAge |-> Some(65), inflationAdjusted |-> FALSE],
   [name |-> "Social Security", type |-> "social_security", monthlyAmount |-> FromInt(2000),
    startAge |-> 67, endAge |-> Undefined, inflationAdjusted |-> TRUE]}

\* a valid allocation and one that sums to 90
SetAssetAllocationArgs ==
  {SampleAllocation, [SampleAllocation EXCEPT !.usStocks = FromInt(50)]}

ToolCalls ==
  {[tool |-> t, args |-> Undefined] :
     t \in {"loadUserProfile", "checkProfileExists", "deleteUserProfile",
            "clearCustomAllocation"}}
  \cup {[tool |-> "saveUserProfile", args |-> a] : a \in SaveProfileArgs}
  \cup {[tool |-> "addIncomeFlow", args |-> a] : a \in AddIncomeFlowArgs}
  \cup {[tool |-> "removeIncomeFlow", args |-> [incomeFlowId |-> i]] : i \in 0 .. MaxIds}
  \cup {[tool |-> "setAssetAllocation", args |-> a] : a \in SetAssetAllocationArgs}

\* the tools whose handler calls saveProfile
WritingTools ==
  {"saveUserProfile", "addIncomeFlow", "removeIncomeFlow", "setAssetAllocation",
   "clearCustomAllocation"}

InitProfileOf(invocations) ==
  /\ fn = [p \in invocations |-> "none"]
  /\ args = [p \in invocations |-> Undefined]
  /\ pc = [p \in invocations |-> "idle"]
  /\ ret = [p \in invocations |-> Undefined]
  /\ \E f \in {Absent, Garbled} :
       loc = [file |-> f, now |-> 1, nextId |-> 1, local |-> [p \in invocations |-> NoLocals]]

\* one invocation at a time
Invocations == {"a"}

InitProfile == InitProfileOf(Invocations)

\* the front end invokes a tool
Invoke(p) ==
  /\ pc[p] \in {"idle", "done"}
  /\ loc.now < MaxClock
  /\ \E call \in ToolCalls :
       /\ call.tool = "addIncomeFlow" => loc.nextId <= MaxIds
       /\ fn' = [fn EXCEPT ![p] = call.tool]
       /\ args' = [args EXCEPT ![p] = call.args]
  /\ pc' = [pc EXCEPT ![p] = "start"]
  /\ ret' = [ret EXCEPT ![p] = Undefined]
  /\ loc' = [loc EXCEPT !.local[p] = NoLocals]

NextProfile ==
  \E p \in Invocations :
    \/ Invoke(p)
    \/ LoadUserProfileCheck(p)
    \/ LoadUserProfileLoad(p)
    \/ SaveUserProfile(p)
    \/ CheckProfileExists(p)
    \/ DeleteUserProfileCheck(p)
    \/ DeleteUserProfileDelete(p)
    \/ AddIncomeFlowLoad(p)
    \/ AddIncomeFlowSave(p)
    \/ RemoveIncomeFlowLoad(p)
    \/ RemoveIncomeFlowSave(p)
    \/ SetAssetAllocationLoad(p)
    \/ SetAssetAllocationSave(p)
    \/ ClearCustomAllocationLoad(p)
    \/ ClearCustomAllocationSave(p)

SpecProfile == InitProfile /\ [][NextProfile]_vars

\* the income flows of the stored profile, none when no profile can be loaded
StoredFlows(file) ==
  LET result == loadProfile(file)
  IN  IF result.found THEN FlowsOf(result.profile[1]) ELSE <<>>

\* invocation p has awaited a saveProfile call that failed
SaveFailed(p) ==
  /\ pc[p] = "done"
  /\ fn[p] \in WritingTools
  /\ loc.local[p].saveResult # Undefined
  /\ ~loc.local[p].saveResult[1].success

\* C17: whenever saveProfile fails inside saveUserProfile, addIncomeFlow,
\* removeIncomeFlow, setAssetAllocation or clearCustomAllocation, the tool's
\* result has success false and its error is the store's error, unchanged.
C17_FailedSaveIsReported ==
  \A p \in DOMAIN pc :
    SaveFailed(p) =>
      /\ ret[p].success = FALSE
      /\ ret[p].error = loc.local[p].saveResult[1].error

\* the part of C17 that the handlers checking the save result meet
C17_CheckedSaveIsReported ==
  \A p \in DOMAIN pc :
    (SaveFailed(p) /\ fn[p] \in {"saveUserProfile", "addIncomeFlow", "removeIncomeFlow"}) =>
      /\ ret[p].success = FALSE
      /\ ret[p].error = Some("EACCES: permission denied")

\* C19: a stored income flow stays in the stored profile, unaltered, across
\* every step except the save of a removeIncomeFlow invoked with its id and
\* the deletion of the profile.
C19_FlowStaysUntilRemoved ==
  [][\A i \in 1 .. Len(StoredFlows(loc.file)) :
       LET flow == StoredFlows(loc.file)[i]
       IN  \/ \E j \in 1 .. Len(StoredFlows(loc'.file)) : StoredFlows(loc'.file)[j] = flow
           \/ \E p \in DOMAIN pc :
                /\ At(p, "removeIncomeFlow", "loaded")
                /\ pc'[p] = "done"
                /\ args[p].incomeFlowId = flow.id
           \/ \E p \in DOMAIN pc :
                /\ At(p, "deleteUserProfile", "exists")
                /\ pc'[p] = "done"]_vars

\* the part of C19 that holds: setAssetAllocation and clearCustomAllocation
\* leave every stored income flow in place
C19_AllocationToolsKeepFlows ==
  [][\A p \in DOMAIN pc :
       (fn[p] \in {"setAssetAllocation", "clearCustomAllocation"} /\ pc[p] # pc'[p]
        /\ fn'[p] = fn[p])
         => StoredFlows(loc'.file) = StoredFlows(loc.file)]_vars

\* invocation p takes a step of its handler from the handler's start
StepsFromStart(p) == pc[p] = "start" /\ pc'[p] # "start"

\* C20: loadUserProfile on an absent profile answers found false without an
\* error; addIncomeFlow and removeIncomeFlow with no stored profile answer
\* success false and leave the file as it was; removeIncomeFlow with an id
\* that matches no stored flow answers success false and saves nothing.
C20_NotFoundIsNegativeResult ==
  [][\A p \in DOMAIN pc :
       StepsFromStart(p) =>
         /\ loadProfile(Absent) = [found |-> FALSE, profile |-> Null, error |-> Undefined]
         /\ (fn[p] = "loadUserProfile" /\ loc.file = Absent) =>
              /\ pc'[p] = "done"
              /\ ret'[p].found = FALSE
              /\ ret'[p].error = Undefined
              /\ loc'.file = Absent
         /\ (fn[p] \in {"addIncomeFlow", "removeIncomeFlow"} /\ ~loadProfile(loc.file).found) =>
              /\ pc'[p] = "done"
              /\ ret'[p].success = FALSE
              /\ loc'.file = loc.file
              /\ loc'.local[p].saveResult = Undefined
         /\ (/\ fn[p] = "removeIncomeFlow"
             /\ loadProfile(loc.file).found
             /\ \A i \in 1 .. Len(StoredFlows(loc.file)) :
                  StoredFlows(loc.file)[i].id # args[p].incomeFlowId) =>
              /\ pc'[p] = "done"
              /\ ret'[p].success = FALSE
              /\ loc'.file = loc.file
              /\ loc'.now = loc.now
              /\ loc'.local[p].saveResult = Undefined]_vars

\* a removeIncomeFlow whose id matched none of the stored flows has ended
C20_Witness ==
  \E p \in DOMAIN pc :
    /\ At(p, "removeIncomeFlow", "done")
    /\ ret[p].success = FALSE
    /\ ret[p].error = Some("Income flow not found.")
    /\ Len(StoredFlows(loc.file)) > 0

(***************************************************************************)
(* Further properties of the simulators.                                   *)
(***************************************************************************)
\* the inputs C21 speaks of: a positive portfolio and a return that loses nothing
GrowingPercentageRun ==
  /\ fn = "simulateConstantPercentage"
  /\ args.initialPortfolio > 0
  /\ RatLt(Zero, args.withdrawalRate) /\ RatLt(args.withdrawalRate, One)
  /\ RatLe(Zero, args.annualReturn)

\* what is left of a starting balance after the rate's share, before rounding
ShareKept(startingBalance, withdrawalRate) ==
  RatMul(FromInt(startingBalance), RatSub(One, withdrawalRate))

\* C21: in simulateConstantPercentage with a positive initialPortfolio, a rate
\* in (0,1) and an annual return >= 0, every year's ending balance, and so
\* finalBalance, is strictly greater than 0.
C21_PercentageBalanceStaysPositive ==
  GrowingPercentageRun =>
     /\ \A k \in 1 .. Len(loc.yearlyResults) : loc.yearlyResults[k].endingBalance > 0
     /\ pc = "done" => (args.years >= 1 => ret.finalBalance > 0)

\* what the code does keep of C21: no ending balance is negative, and a year's ending
\* balance is positive exactly when its starting balance times (1 - rate)
\* exceeds half a dollar; finalBalance is the last ending balance.
C21_PercentageBalancePositiveAboveHalfDollar ==
  GrowingPercentageRun =>
     /\ \A k \in 1 .. Len(loc.yearlyResults) :
          LET y == loc.yearlyResults[k]
          IN  /\ y.endingBalance >= 0
              /\ y.endingBalance > 0 <=>
                   RatLt(Rat(1, 2), ShareKept(y.startingBalance, args.withdrawalRate))
     /\ (pc = "done" /\ args.years >= 1) =>
          ret.finalBalance = ret.yearlyResults[args.years].endingBalance

\* the base withdrawal of year k of a guardrails run after the clamp to the
\* balance: the amount the year's realized rate is computed from
ClampedBase(k) ==
  IF loc.yearlyResults[k].startingBalance < loc.scheduled[k]
  THEN loc.yearlyResults[k].startingBalance
  ELSE loc.scheduled[k]

\* the base withdrawal the claim expects year k to hand to year k + 1
ExpectedCarry(k) ==
  LET rate == loc.yearlyResults[k].withdrawalRate
      cut == RatSub(One, args.config.adjustmentPercent)
      raise == RatAdd(One, args.config.adjustmentPercent)
  IN  IF RatLt(args.config.floorGuardrail, rate)
      THEN Round(RatMul(FromInt(ClampedBase(k)), cut))
      ELSE IF RatLt(rate, args.config.ceilingGuardrail)
      THEN Round(RatMul(FromInt(ClampedBase(k)), raise))
      ELSE ClampedBase(k)

\* C22: in simulateGuardrails the base withdrawal carried into the following
\* year is the current one cut by adjustmentPercent (rounded) when the year's
\* rate is strictly above floorGuardrail, raised by it when strictly below
\* ceilingGuardrail, and unchanged when the rate lies on or between them.
C22_CarriedBaseFollowsGuardrails ==
  fn = "simulateGuardrails" =>
     \A k \in 1 .. (Len(loc.yearlyResults) - 1) : loc.scheduled[k + 1] = ExpectedCarry(k)

\* C22 with the depletion reset: the carried base is as above unless the
\* year's ending balance is 0, and then it is 0.
C22_CarriedBaseFollowsGuardrailsUnlessDepleted ==
  fn = "simulateGuardrails" =>
     \A k \in 1 .. (Len(loc.yearlyResults) - 1) :
        loc.scheduled[k + 1] =
           IF loc.yearlyResults[k].endingBalance = 0 THEN 0 ELSE ExpectedCarry(k)

\* a year whose rate was exactly floorGuardrail handed its base withdrawal on unchanged
C22_Witness ==
  /\ fn = "simulateGuardrails"
  /\ \E k \in 1 .. (Len(loc.yearlyResults) - 1) :
       /\ loc.yearlyResults[k].withdrawalRate = args.config.floorGuardrail
       /\ loc.yearlyResults[k].endingBalance > 0
       /\ ClampedBase(k) > 0
       /\ loc.scheduled[k + 1] = ClampedBase(k)

\* C23: simulateGuardrails tracks depletion as simulateConstantDollar does: in
\* every year whose starting balance is below the planned withdrawal the
\* recorded withdrawal is the whole starting balance and the ending balance is
\* 0, ranOutOfMoney is true and depletionYear is the first such year.
C23_GuardrailsDepletionLikeConstantDollar ==
  fn = "simulateGuardrails" =>
     LET yr == loc.yearlyResults
         clamps == ClampYears(loc)
         flag == IF pc = "done" THEN ret.ranOutOfMoney ELSE loc.ranOutOfMoney
         depl == IF pc = "done" THEN ret.depletionYear ELSE loc.depletionYear
     IN  /\ \A k \in clamps :
              /\ yr[k].withdrawal = yr[k].startingBalance
              /\ yr[k].endingBalance = 0
         /\ clamps # {} => (flag /\ depl = Some(SetMin(clamps)))

\* the same statement holds of simulateConstantDollar
C23_ConstantDollarDepletion ==
  fn = "simulateConstantDollar" =>
     \A k \in ClampYears(loc) :
        /\ loc.yearlyResults[k].withdrawal = loc.yearlyResults[k].startingBalance
        /\ loc.yearlyResults[k].endingBalance = 0

\* the part of C23 that simulateGuardrails keeps: the flag and the first year
C23_GuardrailsDepletionFlag ==
  fn = "simulateGuardrails" =>
     LET clamps == ClampYears(loc)
     IN  clamps # {} => (loc.ranOutOfMoney /\ loc.depletionYear = Some(SetMin(clamps)))

\* C24: in every yearly record of the three simulators withdrawalRate is the
\* record's withdrawal divided by its startingBalance, and 0 when the
\* startingBalance is 0.
C24_RecordedRateIsEffectiveRate ==
  fn \in Simulators =>
     \A k \in 1 .. Len(loc.yearlyResults) :
        LET y == loc.yearlyResults[k]
        IN  y.withdrawalRate =
              IF y.startingBalance = 0 THEN Zero ELSE Rat(y.withdrawal, y.startingBalance)

\* the simulator for which C24 holds
C24_ConstantDollarRateIsEffectiveRate ==
  fn = "simulateConstantDollar" =>
     \A k \in 1 .. Len(loc.yearlyResults) :
        LET y == loc.yearlyResults[k]
        IN  y.withdrawalRate =
              IF y.startingBalance = 0 THEN Zero ELSE Rat(y.withdrawal, y.startingBalance)

RECURSIVE SumOfWithdrawals(_)
SumOfWithdrawals(yearlyResults) ==
  IF yearlyResults = <<>> THEN 0
  ELSE yearlyResults[1].withdrawal + SumOfWithdrawals(Tail(yearlyResults))

\* C25: in every result of the three simulators with years >= 1 the yearly
\* records form a chain: year 1 starts at initialPortfolio, every later year
\* starts at the previous year's endingBalance, finalBalance is the last
\* year's endingBalance, and totalWithdrawn is the sum of the recorded
\* withdrawals.
C25_YearlyRecordsChain ==
  (fn \in Simulators /\ pc = "done" /\ args.years >= 1) =>
     LET yr == ret.yearlyResults
     IN  /\ yr[1].startingBalance = args.initialPortfolio
         /\ \A k \in 2 .. Len(yr) : yr[k].startingBalance = yr[k - 1].endingBalance
         /\ ret.finalBalance = yr[Len(yr)].endingBalance
         /\ ret.totalWithdrawn = SumOfWithdrawals(yr)

\* a three-year run whose balance changed every year and that withdrew every year
C25_Witness ==
  /\ fn \in Simulators /\ pc = "done" /\ args.years = 3
  /\ \A k \in 1 .. 3 :
       /\ ret.yearlyResults[k].withdrawal > 0
       /\ ret.yearlyResults[k].endingBalance # ret.yearlyResults[k].startingBalance
  /\ ret.totalWithdrawn > ret.yearlyResults[1].withdrawal
  /\ ret.finalBalance > 0

\* a rate strictly between 0 and 1
IsFraction(r) == RatLt(Zero, r) /\ RatLt(r, One)

\* the inputs C26 speaks of
SafeInputs ==
  /\ fn \in Simulators
  /\ args.initialPortfolio >= 0
  /\ RatLe(FromInt(-1), args.annualReturn)
  /\ fn = "simulateConstantPercentage" => IsFraction(args.withdrawalRate)
  /\ fn = "simulateConstantDollar" =>
       (args.initialWithdrawal >= 0 /\ RatLe(Zero, args.inflationRate))
  /\ fn = "simulateGuardrails" =>
       /\ IsFraction(args.config.initialRate)
       /\ IsFraction(args.config.floorGuardrail)
       /\ IsFraction(args.config.ceilingGuardrail)
       /\ IsFraction(args.config.adjustmentPercent)

\* C26: for a non-negative whole-dollar portfolio and first withdrawal, rates
\* in (0,1) and an annual return >= -1, every yearly record of every simulator
\* has 0 <= withdrawal <= startingBalance and endingBalance >= 0.
C26_NeverOverdrawn ==
  SafeInputs =>
     \A k \in 1 .. Len(loc.yearlyResults) :
        LET y == loc.yearlyResults[k]
        IN  /\ 0 <= y.withdrawal
            /\ y.withdrawal <= y.startingBalance
            /\ y.endingBalance >= 0

\* a constant-dollar year that could not pay the scheduled amount, after a
\* year that could, paid out what was there
C26_Witness ==
  /\ SafeInputs /\ fn = "simulateConstantDollar"
  /\ IsFraction(args.inflationRate)
  /\ Len(loc.yearlyResults) >= 2
  /\ loc.scheduled[1] <= loc.yearlyResults[1].startingBalance
  /\ loc.scheduled[2] > loc.yearlyResults[2].startingBalance
  /\ loc.yearlyResults[2].withdrawal = loc.yearlyResults[2].startingBalance
  /\ loc.yearlyResults[2].withdrawal > 0

\* the inflation-escalated amount simulateConstantDollar schedules for year k
RECURSIVE EscalatedWithdrawal(_, _, _)
EscalatedWithdrawal(initialWithdrawal, inflationRate, k) ==
  IF k <= 1 THEN initialWithdrawal
  ELSE Round(RatMul(FromInt(EscalatedWithdrawal(initialWithdrawal, inflationRate, k - 1)),
                    RatAdd(One, inflationRate)))

\* C27: in simulateConstantDollar with a positive first withdrawal, a year that
\* ends at 0 with years still to come makes the result say ranOutOfMoney with
\* a depletionYear; and a result with ranOutOfMoney false withdrew the full
\* inflation-escalated amount every year.
C27_EmptyPortfolioIsReported ==
  (fn = "simulateConstantDollar" /\ pc = "done" /\ args.initialWithdrawal > 0) =>
     LET yr == ret.yearlyResults
     IN  /\ (\E k \in 1 .. (Len(yr) - 1) : yr[k].endingBalance = 0) =>
              (ret.ranOutOfMoney /\ ret.depletionYear # Undefined)
         /\ ~ret.ranOutOfMoney =>
              \A k \in 1 .. Len(yr) :
                 yr[k].withdrawal =
                    EscalatedWithdrawal(args.initialWithdrawal, args.inflationRate, k)

(***************************************************************************)
(* Two addIncomeFlow invocations in flight at once: the handlers are async *)
(* and each awaits loadProfile and then saveProfile, so the steps of the   *)
(* two interleave in any order.                                            *)
(***************************************************************************)
ConcurrentInvocations == {"a", "b"}

\* the profile files the two invocations may find
StoredFiles ==
  {FileText(Stringify(ProfileWithTimestamp(profile, 0))) :
     profile \in {q \in StoreProfiles : q.savedAt = 0}}

InitConcurrent ==
  /\ fn = [p \in ConcurrentInvocations |-> "addIncomeFlow"]
  /\ args \in [ConcurrentInvocations -> AddIncomeFlowArgs]
  /\ pc = [p \in ConcurrentInvocations |-> "start"]
  /\ ret = [p \in ConcurrentInvocations |-> Undefined]
  /\ \E f \in StoredFiles :
       loc = [file |-> f, now |-> 1, nextId |-> Len(SampleFlows) + 1,
              local |-> [p \in ConcurrentInvocations |-> NoLocals]]

NextConcurrent ==
  \E p \in ConcurrentInvocations :
    \/ AddIncomeFlowLoad(p)
    \/ AddIncomeFlowSave(p)

SpecConcurrent == InitConcurrent /\ [][NextConcurrent]_vars

\* flow is one of the flows
InFlows(flow, flows) == \E i \in 1 .. Len(flows) : flows[i] = flow

\* both invocations have ended and reported success
BothAdded ==
  \A p \in ConcurrentInvocations : At(p, "addIncomeFlow", "done") /\ ret[p].success

\* C28: when two addIncomeFlow invocations against the same stored profile
\* both report success, the stored profile afterwards holds both new flows,
\* whatever the interleaving of their load and save steps.
C28_BothFlowsStored ==
  BothAdded =>
     \A p \in ConcurrentInvocations : InFlows(ret[p].incomeFlow, StoredFlows(loc.file))

\* C28 as last write wins: a successful addIncomeFlow save stores exactly the
\* flows its invocation loaded followed by its new flow; the new flow of the
\* other invocation survives the save exactly when it was among the loaded.
C28_LastWriteWins ==
  [][\A p \in ConcurrentInvocations :
       (At(p, "addIncomeFlow", "loaded") /\ pc'[p] = "done" /\ ret'[p].success) =>
          LET loaded == FlowsOf(loc.local[p].profile[1])
          IN  /\ StoredFlows(loc'.file) = Append(loaded, ret'[p].incomeFlow)
              /\ \A q \in ConcurrentInvocations \ {p} :
                   (pc[q] = "done" /\ ret[q].success) =>
                      (InFlows(ret[q].incomeFlow, StoredFlows(loc'.file))
                         <=> InFlows(ret[q].incomeFlow, loaded))]_vars

\* both reported success and the flow of the first to save is gone
C28_Witness ==
  /\ BothAdded
  /\ \E p \in ConcurrentInvocations :
       /\ InFlows(ret[p].incomeFlow, StoredFlows(loc.file))
       /\ \E q \in ConcurrentInvocations \ {p} :
            ~InFlows(ret[q].incomeFlow, StoredFlows(loc.file))

(***************************************************************************)
(* Further properties of the income functions and of the profile tools.    *)
(***************************************************************************)
\* C29: calculateIncomeFlowLifetimeValue counts no year at or beyond
\* lifeExpectancy: a flow whose endAge is greater than lifeExpectancy has the
\* value of the same flow with endAge set to lifeExpectancy.
C29_LifetimeValueStopsAtLifeExpectancy ==
  (/\ fn = "calculateIncomeFlowLifetimeValue" /\ pc = "done"
   /\ args.flow.endAge # Undefined
   /\ args.flow.endAge[1] > args.lifeExpectancy) =>
     ret.value =
        calculateIncomeFlowLifetimeValue([args.flow EXCEPT !.endAge = Some(args.lifeExpectancy)],
                                         args.retirementAge, args.lifeExpectancy,
                                         args.inflationRate)

\* what the code does with lifeExpectancy: it ends only the flows without an endAge
C29_LifeExpectancyEndsOpenFlows ==
  (fn = "calculateIncomeFlowLifetimeValue" /\ pc = "done" /\ args.flow.endAge = Undefined) =>
     ret.value =
        calculateIncomeFlowLifetimeValue([args.flow EXCEPT !.endAge = Some(args.lifeExpectancy)],
                                         args.retirementAge, args.lifeExpectancy,
                                         args.inflationRate)

\* the flows in their order, the flows with the given id left out
RECURSIVE RemainingFlows(_, _)
RemainingFlows(flows, id) ==
  IF flows = <<>> THEN <<>>
  ELSE IF flows[1].id = id THEN RemainingFlows(Tail(flows), id)
  ELSE <<flows[1]>> \o RemainingFlows(Tail(flows), id)

\* invocation p's removeIncomeFlow saves and reports success in this step
RemoveSucceeds(p) ==
  /\ At(p, "removeIncomeFlow", "loaded")
  /\ pc'[p] = "done"
  /\ ret'[p].success

\* C30: a successful removeIncomeFlow(id) changes the stored profile only by
\* removing the flows with that id and refreshing savedAt: the other flows
\* stay in their order and every other field of the profile is unchanged.
C30_RemoveChangesOnlyTheFlow ==
  [][\A p \in DOMAIN pc :
       RemoveSucceeds(p) =>
          LET before == loadProfile(loc.file).profile[1]
              after == loadProfile(loc'.file).profile[1]
          IN  /\ loadProfile(loc'.file).found
              /\ FlowsOf(after) = RemainingFlows(FlowsOf(before), args[p].incomeFlowId)
              /\ after.savedAt = loc.now
              /\ \A field \in DOMAIN before \ {"incomeFlows", "savedAt"} :
                   after[field] = before[field]]_vars

\* a removal has succeeded on a profile with a custom allocation, and the
\* flow added after the removed one is still stored
C30_Witness ==
  \E p \in DOMAIN pc :
    /\ At(p, "removeIncomeFlow", "done")
    /\ ret[p].success
    /\ args[p].incomeFlowId = 1
    /\ loadProfile(loc.file).found
    /\ loadProfile(loc.file).profile[1].assetAllocation = Some(SampleAllocation)
    /\ Len(StoredFlows(loc.file)) = 1
    /\ StoredFlows(loc.file)[1].id = 2

====
